---- MODULE Spec2Model ----
(***************************************************************************)
(* Verification model of the diveTrader backend core:                      *)
(*   - the strategy runtime scheduler (services/typed_strategy_runner.py,  *)
(*     services/strategy_runner.py): registry, control calls and the       *)
(*     per-strategy execution loop, at the granularity of the statements   *)
(*     that read or write shared state;                                    *)
(*   - the risk gate (services/risk_management_service.py) and the order   *)
(*     path that consults it (services/trading_service.py);                *)
(*   - the strategy instances, the backtests, the live signal and the      *)
(*     synchronisation of trades and positions with the brokerage.         *)
(* Money amounts are integers (dollars), percentages are integers, and     *)
(* float comparisons are rewritten as integer cross-multiplications.       *)
(***************************************************************************)
EXTENDS Integers, Sequences, FiniteSets, TLC

(***************************************************************************)
(* Bounds of the model.                                                    *)
(***************************************************************************)
\* number of start_strategy calls explored (each creates at most one
\* strategy instance and one loop thread)
MaxCalls == 2

\* strategy ids and control threads (API handlers, shutdown hook)
Ids == {1, 2}
Callers == {"a", "b"}
\* the control thread of the sequential specification, and the id the two
\* control threads of the concurrent specification contend for
SeqCallers == {"a"}
ConcIds == {1}

CallIds == 1..MaxCalls

VARIABLES
  running_strategies,   \* dict id -> thread, as an insertion-ordered sequence of <<id, thread>>
  strategy_instances,   \* dict id -> instance, 0 when the key is absent
  _shutdown,            \* TypedStrategyRunner._shutdown
  db,                   \* Strategy records: "active", "inactive" or "missing"
  threads,              \* loop threads, indexed by the start call that created them
  inst_running,         \* is_running of the strategy instance created by each start call
  callers,              \* control threads: operation in progress and position in it
  ncalls,               \* start_strategy calls begun so far
  wins                  \* history: start_strategy(id) calls that returned True since the last stop_strategy(id) began

VARIABLES
  rk_in,                \* risk gate: the scenario (strategy record, positions, order)
  rk_pc,                \* risk gate: position in place_order
  rk_out                \* risk gate: outcome of place_order

VARIABLES
  inst                  \* one strategy instance: settings, is_running, tracked position, calls made

VARIABLES
  bt                    \* one backtest run: the bar series, the loop index, the simulated position, the outputs

VARIABLES
  rq,                   \* one backtest request: the path taken, the data fetched, the result returned
  sg                    \* one evaluation of the trading signal: the bars, the settings, the signals

VARIABLES
  lg,                   \* the stored trades and positions of one strategy, and the brokerage's orders and positions
  sc                    \* one live scalping instance with its loop thread and a control thread

schedVars == <<running_strategies, strategy_instances, _shutdown, db, threads,
               inst_running, callers, ncalls, wins>>
riskVars == <<rk_in, rk_pc, rk_out>>
instVars == <<inst>>
btVars == <<bt>>
rqVars == <<rq>>
sgVars == <<sg>>
lgVars == <<lg>>
scVars == <<sc>>
vars == <<schedVars, riskVars, instVars, btVars, rqVars, sgVars, lgVars, scVars>>

(***************************************************************************)
(* Python dict, insertion ordered: a sequence of <<key, value>> pairs.     *)
(***************************************************************************)
DictKeys(d) == [n \in 1..Len(d) |-> d[n][1]]

DictHas(d, k) == \E n \in 1..Len(d) : d[n][1] = k

DictGet(d, k) == d[CHOOSE n \in 1..Len(d) : d[n][1] = k][2]

DictPut(d, k, v) ==
  IF DictHas(d, k)
  THEN [n \in 1..Len(d) |-> IF d[n][1] = k THEN <<k, v>> ELSE d[n]]
  ELSE Append(d, <<k, v>>)

DictDel(d, k) == SelectSeq(d, LAMBDA p : p[1] # k)

(***************************************************************************)
(* Loop threads and control threads.                                       *)
(***************************************************************************)
\* positions of a loop thread inside one tick of _run_strategy
TickPcs == {"reread", "iterate", "perf", "commit"}
\* positions of a loop thread that has been started and has not returned
AlivePcs == {"start", "check", "sleep", "sleep_exc"} \cup TickPcs

NoThread == [sid |-> 0, pc |-> "unborn", stop |-> "no", unreg |-> FALSE]
IdleCaller == [op |-> "idle", pc |-> "idle", sid |-> 0, k |-> 0, thr |-> 0,
               ret |-> "none", guard |-> FALSE, todo |-> <<>>]

\* mutation of Finish: a stop_strategy that fails inside shutdown() ends the
\* shutdown instead of returning into its loop
Finish_aborts_shutdown(c, result) ==
  IF callers[c].op = "shutdown" /\ result = "true"
  THEN [callers EXCEPT ![c].pc = "sd_loop"]
  ELSE [callers EXCEPT ![c].pc = "ret", ![c].ret = result]

\* a control call ends: stop_strategy called from shutdown() returns into its loop
Finish(c, result) ==
  IF callers[c].op = "shutdown"
  THEN [callers EXCEPT ![c].pc = "sd_loop"]
  ELSE [callers EXCEPT ![c].pc = "ret", ![c].ret = result]

InitSched ==
  /\ running_strategies = <<>>
  /\ strategy_instances = [i \in Ids |-> 0]
  /\ _shutdown = FALSE
  /\ db = [i \in Ids |-> "active"]
  /\ threads = [t \in CallIds |-> NoThread]
  /\ inst_running = [t \in CallIds |-> FALSE]
  /\ callers = [c \in Callers |-> IdleCaller]
  /\ ncalls = 0
  /\ wins = [i \in Ids |-> 0]

(***************************************************************************)
(* Control calls begin.  A control thread that is idle calls               *)
(* start_strategy(id), stop_strategy(id) or shutdown().                    *)
(***************************************************************************)
CallStart(c, i) ==
  /\ callers[c].pc = "idle"
  /\ ncalls < MaxCalls
  /\ ncalls' = ncalls + 1
  /\ callers' = [callers EXCEPT ![c] = [IdleCaller EXCEPT !.op = "start", !.pc = "ss_guard",
                                                          !.sid = i, !.k = ncalls + 1]]
  /\ UNCHANGED <<running_strategies, strategy_instances, _shutdown, db, threads,
                 inst_running, wins>>

CallStop(c, i) ==
  /\ callers[c].pc = "idle"
  /\ callers' = [callers EXCEPT ![c] = [IdleCaller EXCEPT !.op = "stop", !.pc = "st_guard",
                                                          !.sid = i]]
  /\ wins' = [wins EXCEPT ![i] = 0]
  /\ UNCHANGED <<running_strategies, strategy_instances, _shutdown, db, threads,
                 inst_running, ncalls>>

\* the caller has read the result; the control thread is free again
Return(c) ==
  /\ callers[c].pc = "ret"
  /\ callers' = [callers EXCEPT ![c] = IdleCaller]
  /\ UNCHANGED <<running_strategies, strategy_instances, _shutdown, db, threads,
                 inst_running, ncalls, wins>>

(***************************************************************************)
(* start_strategy, statement by statement.                                 *)
(***************************************************************************)
\* `if strategy_id in self.running_strategies: return False`
start_strategy_guard(c) ==
  /\ callers[c].pc = "ss_guard"
  /\ callers' = IF DictHas(running_strategies, callers[c].sid)
                THEN Finish(c, "false")
                ELSE [callers EXCEPT ![c].pc = "ss_load", ![c].guard = TRUE]
  /\ UNCHANGED <<running_strategies, strategy_instances, _shutdown, db, threads,
                 inst_running, ncalls, wins>>

\* db.get(Strategy, id); not found or not active: return False.  The capital
\* sync that follows touches no scheduler state and never blocks the start.
start_strategy_load(c) ==
  /\ callers[c].pc = "ss_load"
  /\ callers' = IF db[callers[c].sid] = "active"
                THEN [callers EXCEPT ![c].pc = "ss_create"]
                ELSE Finish(c, "false")
  /\ UNCHANGED <<running_strategies, strategy_instances, _shutdown, db, threads,
                 inst_running, ncalls, wins>>

\* _create_typed_strategy_instance: the factory builds the instance and calls
\* start() on it; unknown kind, start() returning False or any exception give
\* None, and start_strategy returns False.
_create_typed_strategy_instance(c) ==
  /\ callers[c].pc = "ss_create"
  /\ \E started \in BOOLEAN :
       IF started
       THEN /\ inst_running' = [inst_running EXCEPT ![callers[c].k] = TRUE]
            /\ callers' = [callers EXCEPT ![c].pc = "ss_reg"]
       ELSE /\ inst_running' = inst_running
            /\ callers' = Finish(c, "false")
  /\ UNCHANGED <<running_strategies, strategy_instances, _shutdown, db, threads,
                 ncalls, wins>>

\* self.strategy_instances[strategy_id] = strategy_instance
start_strategy_register_instance(c) ==
  /\ callers[c].pc = "ss_reg"
  /\ strategy_instances' = [strategy_instances EXCEPT ![callers[c].sid] = callers[c].k]
  /\ callers' = [callers EXCEPT ![c].pc = "ss_mark"]
  /\ UNCHANGED <<running_strategies, _shutdown, db, threads, inst_running, ncalls, wins>>

\* mutation of start_strategy_mark_running: the thread object is created but
\* `self.running_strategies[strategy_id] = thread` is not executed before
\* thread.start()
start_strategy_mark_running_unregistered(c) ==
  /\ callers[c].pc = "ss_mark"
  /\ threads' = [threads EXCEPT ![callers[c].k] =
                   [threads[callers[c].k] EXCEPT !.sid = callers[c].sid, !.pc = "created"]]
  /\ callers' = [callers EXCEPT ![c].pc = "ss_tstart"]
  /\ UNCHANGED <<running_strategies, strategy_instances, _shutdown, db, inst_running,
                 ncalls, wins>>

\* thread = threading.Thread(..., args=(id, instance, strategy.strategy_type));
\* self.running_strategies[strategy_id] = thread.
\* Reading strategy.strategy_type reloads the record (it was expired by the
\* commits of the capital sync and of the settings load) and can raise; the
\* except clause then returns False.
start_strategy_mark_running(c) ==
  /\ callers[c].pc = "ss_mark"
  /\ \/ /\ threads' = [threads EXCEPT ![callers[c].k] =
                         [threads[callers[c].k] EXCEPT !.sid = callers[c].sid, !.pc = "created"]]
        /\ running_strategies' = DictPut(running_strategies, callers[c].sid, callers[c].k)
        /\ callers' = [callers EXCEPT ![c].pc = "ss_tstart"]
     \/ /\ callers' = Finish(c, "false")
        /\ UNCHANGED <<threads, running_strategies>>
  /\ UNCHANGED <<strategy_instances, _shutdown, db, inst_running, ncalls, wins>>

\* thread.start(); raises RuntimeError when no new thread can be started.
start_strategy_thread_start(c) ==
  /\ callers[c].pc = "ss_tstart"
  /\ \/ /\ threads' = [threads EXCEPT ![callers[c].k].pc = "start"]
        /\ callers' = [callers EXCEPT ![c].pc = "ss_log"]
     \/ /\ callers' = Finish(c, "false")
        /\ UNCHANGED threads
  /\ UNCHANGED <<running_strategies, strategy_instances, _shutdown, db, inst_running,
                 ncalls, wins>>

\* logger.info(strategy.name ...), the start event, `return True`; an
\* exception here (the reload of strategy.name, opening the event session) is
\* caught by the same except clause, which returns False.
start_strategy_log(c) ==
  /\ callers[c].pc = "ss_log"
  /\ \/ /\ callers' = Finish(c, "true")
        /\ wins' = [wins EXCEPT ![callers[c].sid] = @ + 1]
     \/ /\ callers' = Finish(c, "false")
        /\ UNCHANGED wins
  /\ UNCHANGED <<running_strategies, strategy_instances, _shutdown, db, threads,
                 inst_running, ncalls>>

(***************************************************************************)
(* stop_strategy, statement by statement.                                  *)
(***************************************************************************)
\* `if strategy_id not in self.running_strategies: return False`.
\* History: the loop thread registered for the id is marked as asked to stop.
stop_strategy_guard(c) ==
  /\ callers[c].pc = "st_guard"
  /\ IF DictHas(running_strategies, callers[c].sid)
     THEN /\ callers' = [callers EXCEPT ![c].pc = "st_stop", ![c].guard = TRUE]
          /\ threads' = [threads EXCEPT ![DictGet(running_strategies, callers[c].sid)].stop =
                                           IF @ = "no" THEN "asked" ELSE @]
     ELSE /\ callers' = Finish(c, "false")
          /\ UNCHANGED threads
  /\ UNCHANGED <<running_strategies, strategy_instances, _shutdown, db, inst_running,
                 ncalls, wins>>

\* strategy_instance = self.strategy_instances.get(id); strategy_instance.stop()
\* (stop() of every strategy class sets is_running = False and catches its
\* own exceptions)
stop_strategy_stop_instance(c) ==
  /\ callers[c].pc = "st_stop"
  /\ inst_running' = IF strategy_instances[callers[c].sid] # 0
                     THEN [inst_running EXCEPT ![strategy_instances[callers[c].sid]] = FALSE]
                     ELSE inst_running
  /\ callers' = [callers EXCEPT ![c].pc = "st_get"]
  /\ UNCHANGED <<running_strategies, strategy_instances, _shutdown, db, threads, ncalls, wins>>

\* thread = self.running_strategies[strategy_id]   (KeyError: return False)
stop_strategy_get_thread(c) ==
  /\ callers[c].pc = "st_get"
  /\ callers' = IF DictHas(running_strategies, callers[c].sid)
                THEN [callers EXCEPT ![c].pc = "st_join",
                                     ![c].thr = DictGet(running_strategies, callers[c].sid)]
                ELSE Finish(c, "false")
  /\ UNCHANGED <<running_strategies, strategy_instances, _shutdown, db, threads,
                 inst_running, ncalls, wins>>

\* thread.join(timeout=30): returns when the thread has ended, or when the
\* timeout expires with the thread still alive; raises RuntimeError for a
\* thread that was never started (return False).  Time passes for a loop
\* thread in its sleep and in the external calls of a tick, so the timeout
\* expires only with the thread at one of those; a thread at its loop test
\* takes that step first.
stop_strategy_join(c) ==
  /\ callers[c].pc = "st_join"
  /\ threads[callers[c].thr].pc \in {"created", "done", "sleep", "sleep_exc"} \cup TickPcs
  /\ callers' = IF threads[callers[c].thr].pc = "created"
                THEN Finish(c, "false")
                ELSE [callers EXCEPT ![c].pc = "st_del1"]
  /\ UNCHANGED <<running_strategies, strategy_instances, _shutdown, db, threads,
                 inst_running, ncalls, wins>>

\* History kept for the threads of an id when a stop_strategy deletes an entry
\* of the id: every thread created for the id, and the thread of a
\* start_strategy call that has registered its instance and is about to create
\* its thread, is marked as unregistered by a stop.
MarkUnregistered(i) ==
  [t \in CallIds |->
     IF \/ threads[t].sid = i
        \/ \E c \in Callers : /\ callers[c].op = "start"
                               /\ callers[c].pc = "ss_mark"
                               /\ callers[c].sid = i
                               /\ callers[c].k = t
     THEN [threads[t] EXCEPT !.unreg = TRUE]
     ELSE threads[t]]

\* del self.running_strategies[strategy_id]   (KeyError: return False).
stop_strategy_del_running(c) ==
  /\ callers[c].pc = "st_del1"
  /\ IF DictHas(running_strategies, callers[c].sid)
     THEN /\ running_strategies' = DictDel(running_strategies, callers[c].sid)
          /\ threads' = MarkUnregistered(callers[c].sid)
          /\ callers' = [callers EXCEPT ![c].pc = "st_del2"]
     ELSE /\ callers' = Finish(c, "false")
          /\ UNCHANGED <<running_strategies, threads>>
  /\ UNCHANGED <<strategy_instances, _shutdown, db, inst_running, ncalls, wins>>

\* del self.strategy_instances[strategy_id] (KeyError: return False); the stop
\* event is logged (the logger catches its own failures); return True.
stop_strategy_del_instance(c) ==
  /\ callers[c].pc = "st_del2"
  /\ IF strategy_instances[callers[c].sid] # 0
     THEN /\ strategy_instances' = [strategy_instances EXCEPT ![callers[c].sid] = 0]
          /\ threads' = MarkUnregistered(callers[c].sid)
          /\ callers' = Finish(c, "true")
     ELSE /\ callers' = Finish(c, "false")
          /\ UNCHANGED <<strategy_instances, threads>>
  /\ UNCHANGED <<running_strategies, _shutdown, db, inst_running, ncalls, wins>>

(***************************************************************************)
(* shutdown(): set the flag, then stop_strategy for every key of a         *)
(* snapshot of running_strategies, in the dict's order.                    *)
(***************************************************************************)
shutdown_set_flag(c) ==
  /\ callers[c].pc = "idle"
  /\ _shutdown' = TRUE
  /\ callers' = [callers EXCEPT ![c] = [IdleCaller EXCEPT !.op = "shutdown", !.pc = "sd_keys"]]
  /\ wins' = [i \in Ids |-> 0]
  /\ UNCHANGED <<running_strategies, strategy_instances, db, threads, inst_running, ncalls>>

\* list(self.running_strategies.keys())
shutdown_keys(c) ==
  /\ callers[c].pc = "sd_keys"
  /\ callers' = [callers EXCEPT ![c].pc = "sd_loop", ![c].todo = DictKeys(running_strategies)]
  /\ UNCHANGED <<running_strategies, strategy_instances, _shutdown, db, threads,
                 inst_running, ncalls, wins>>

\* for strategy_id in ...: self.stop_strategy(strategy_id)
shutdown_loop(c) ==
  /\ callers[c].pc = "sd_loop"
  /\ callers' = IF callers[c].todo = <<>>
                THEN [callers EXCEPT ![c].pc = "ret", ![c].ret = "none"]
                ELSE [callers EXCEPT ![c].pc = "st_guard", ![c].sid = Head(callers[c].todo),
                                     ![c].todo = Tail(callers[c].todo),
                                     ![c].guard = FALSE, ![c].thr = 0]
  /\ UNCHANGED <<running_strategies, strategy_instances, _shutdown, db, threads,
                 inst_running, ncalls, wins>>

(***************************************************************************)
(* _run_strategy: the execution loop of one loop thread.                   *)
(***************************************************************************)
\* `while not self._shutdown and strategy_id in self.running_strategies:`
\* History: a thread asked to stop while it slept or ticked is marked when it
\* wakes up (run_strategy_wake), not here.
run_strategy_loop_test(t) ==
  /\ threads[t].pc \in {"start", "check"}
  /\ threads' = [threads EXCEPT ![t].pc =
                   IF ~_shutdown /\ DictHas(running_strategies, threads[t].sid)
                   THEN "reread" ELSE "done"]
  /\ UNCHANGED <<running_strategies, strategy_instances, _shutdown, db, inst_running,
                 callers, ncalls, wins>>

\* mutation of run_strategy_reread: the break tests `not strategy` only, so an
\* inactive record does not end the loop
run_strategy_reread_ignores_is_active(t) ==
  /\ threads[t].pc = "reread"
  /\ \/ threads' = [threads EXCEPT ![t].pc =
                      IF db[threads[t].sid] # "missing" THEN "iterate" ELSE "done"]
     \/ threads' = [threads EXCEPT ![t].pc = "sleep_exc"]
  /\ UNCHANGED <<running_strategies, strategy_instances, _shutdown, db, inst_running,
                 callers, ncalls, wins>>

\* strategy = db.get(Strategy, id); `if not strategy or not strategy.is_active: break`
\* Opening the session or the read can raise: the except clause sleeps.
run_strategy_reread(t) ==
  /\ threads[t].pc = "reread"
  /\ \/ threads' = [threads EXCEPT ![t].pc =
                      IF db[threads[t].sid] = "active" THEN "iterate" ELSE "done"]
     \/ threads' = [threads EXCEPT ![t].pc = "sleep_exc"]
  /\ UNCHANGED <<running_strategies, strategy_instances, _shutdown, db, inst_running,
                 callers, ncalls, wins>>

\* mutation of run_strategy_iterate: an exception of run_iteration is not
\* caught inside the loop and ends the thread
run_strategy_iterate_uncaught(t) ==
  /\ threads[t].pc = "iterate"
  /\ \/ threads' = [threads EXCEPT ![t].pc = "perf"]
     \/ threads' = [threads EXCEPT ![t].pc = "done"]
  /\ UNCHANGED <<running_strategies, strategy_instances, _shutdown, db, inst_running,
                 callers, ncalls, wins>>

\* periodic account sync, trade-check event, strategy_instance.run_iteration(),
\* performance event (inside its own try)
run_strategy_iterate(t) ==
  /\ threads[t].pc = "iterate"
  /\ \/ threads' = [threads EXCEPT ![t].pc = "perf"]
     \/ threads' = [threads EXCEPT ![t].pc = "sleep_exc"]
  /\ UNCHANGED <<running_strategies, strategy_instances, _shutdown, db, inst_running,
                 callers, ncalls, wins>>

\* performance_service.update_daily_performance (inside its own try in the
\* typed runner; unguarded in StrategyRunner, where a failure reaches the
\* except clause of the loop)
run_strategy_update_performance(t) ==
  /\ threads[t].pc = "perf"
  /\ \/ threads' = [threads EXCEPT ![t].pc = "commit"]
     \/ threads' = [threads EXCEPT ![t].pc = "sleep_exc"]
  /\ UNCHANGED <<running_strategies, strategy_instances, _shutdown, db, inst_running,
                 callers, ncalls, wins>>

\* db.commit(), then time.sleep(check_interval)
run_strategy_commit(t) ==
  /\ threads[t].pc = "commit"
  /\ \/ threads' = [threads EXCEPT ![t].pc = "sleep"]
     \/ threads' = [threads EXCEPT ![t].pc = "sleep_exc"]
  /\ UNCHANGED <<running_strategies, strategy_instances, _shutdown, db, inst_running,
                 callers, ncalls, wins>>

\* time.sleep(check_interval) returns, after the tick or in the except clause
run_strategy_wake(t) ==
  /\ threads[t].pc \in {"sleep", "sleep_exc"}
  /\ threads' = [threads EXCEPT ![t].pc = "check",
                                ![t].stop = IF @ = "asked" THEN "woken" ELSE @]
  /\ UNCHANGED <<running_strategies, strategy_instances, _shutdown, db, inst_running,
                 callers, ncalls, wins>>

(***************************************************************************)
(* The record store changes out of band: a Strategy record is activated,   *)
(* deactivated or deleted by an administrative path.                       *)
(***************************************************************************)
SetRecord(i, v) ==
  /\ db[i] # v
  /\ db' = [db EXCEPT ![i] = v]
  /\ UNCHANGED <<running_strategies, strategy_instances, _shutdown, threads, inst_running,
                 callers, ncalls, wins>>

(***************************************************************************)
(* Risk gate (RiskManagementService).  A scenario is what the service      *)
(* reads from the record store for one strategy, plus the proposed order.  *)
(* An alert is [alert_type, severity]; the message of an alert is          *)
(* determined by these two and the scenario.                               *)
(***************************************************************************)
Alert(type, severity) == [alert_type |-> type, severity |-> severity]

\* int(a / b) for b > 0: Python's int() truncates towards zero
IntDiv(a, b) == IF a >= 0 THEN a \div b ELSE -((-a) \div b)

Abs(x) == IF x < 0 THEN -x ELSE x

RECURSIVE SumMarketValue(_)
SumMarketValue(ps) ==
  IF ps = <<>> THEN 0 ELSE Head(ps).market_value + SumMarketValue(Tail(ps))

\* The percentages are computed in double precision as (a / b) * 100.  For a
\* whole percentage p the quotient is the double nearest to p/100, and its
\* product with 100 is below p for these p of 1..100 (0.29 * 100 is
\* 28.999999999999996); for every other whole p it is p or just above p.
PercentsRoundedDown == {29, 57, 58}

\* (a / b) * 100 >= m for b > 0 and a whole limit m of 1..100
PercentAtLeast(a, b, m) ==
  \/ a * 100 > m * b
  \/ a * 100 = m * b /\ m \notin PercentsRoundedDown

HasSeverity(alerts, sev) == \E n \in 1..Len(alerts) : alerts[n].severity = sev

\* self.default_limits (the limits the checks read), with the two defaults the
\* code gives inline: limits.get('max_sector_exposure', 50.0) and
\* .get('risk_per_trade', 2.0)
default_limits == [max_daily_loss |-> 5, max_drawdown |-> 15, max_position_size |-> 10,
                   max_sector_exposure |-> 50, risk_per_trade |-> 2]

\* limits = default_limits.copy(); limits.update(risk_config); the defaults
\* alone when the strategy is not found
get_strategy_risk_limits(s) ==
  IF ~s.exists THEN default_limits
  ELSE [k \in DOMAIN default_limits |->
          IF k \in DOMAIN s.risk_config THEN s.risk_config[k] ELSE default_limits[k]]

\* max PerformanceMetric.total_value when there is one (and it is not 0),
\* else the strategy's initial capital
get_peak_capital(s) ==
  IF s.peak_metric # 0 THEN s.peak_metric
  ELSE IF s.exists THEN s.initial_capital ELSE 0

\* current capital plus the market value of the strategy's positions
calculate_portfolio_value(s) ==
  IF ~s.exists THEN 0 ELSE s.current_capital + SumMarketValue(s.positions)

\* the position size before the limits are applied: from the risk amount and
\* the stop loss, or from max_position_size when there is no stop loss
risk_based_size(s, entry_price, stop_loss_price) ==
  LET limits == get_strategy_risk_limits(s)
      cap == s.current_capital
  IN  IF stop_loss_price > 0 /\ entry_price > 0
      THEN IF entry_price = stop_loss_price THEN 0
           ELSE IntDiv(cap * limits.risk_per_trade, 100 * Abs(entry_price - stop_loss_price))
      ELSE IF entry_price > 0 THEN IntDiv(cap * limits.max_position_size, 100 * entry_price)
      ELSE 0

calculate_position_size(s, entry_price, stop_loss_price) ==
  LET limits == get_strategy_risk_limits(s)
      cap == s.current_capital
      maxpos == limits.max_position_size
      bad_stop == stop_loss_price > 0 /\ entry_price > 0 /\ entry_price = stop_loss_price
      by_risk == risk_based_size(s, entry_price, stop_loss_price)
      alerts0 == IF bad_stop THEN <<Alert("position_sizing", "high")>> ELSE <<>>
      max_shares_by_capital == IntDiv(cap * maxpos, 100 * entry_price)
      position_size == IF by_risk < max_shares_by_capital THEN by_risk ELSE max_shares_by_capital
      portfolio_value == calculate_portfolio_value(s)
      over == portfolio_value > 0 /\ position_size * entry_price * 100 > maxpos * portfolio_value
  IN  IF ~s.exists THEN [size |-> 0, alerts |-> <<Alert("error", "high")>>]
      ELSE IF s.fail = "size" \/ entry_price = 0
        THEN [size |-> 0, alerts |-> <<Alert("error", "critical")>>]
      ELSE IF position_size < 1
        THEN [size |-> 0, alerts |-> Append(alerts0, Alert("position_sizing", "medium"))]
      ELSE IF over
        THEN [size |-> IntDiv(maxpos * portfolio_value, 100 * entry_price),
              alerts |-> Append(alerts0, Alert("position_size", "high"))]
      ELSE [size |-> position_size, alerts |-> alerts0]

check_drawdown_limits(s) ==
  LET peak == get_peak_capital(s)
      lost == peak - s.current_capital
      m == get_strategy_risk_limits(s).max_drawdown
  IN  IF ~s.exists THEN <<>>
      ELSE IF s.fail = "drawdown" THEN <<Alert("error", "high")>>
      ELSE IF peak <= 0 THEN <<>>
      ELSE IF PercentAtLeast(lost, peak, m) THEN <<Alert("drawdown", "critical")>>
      ELSE IF lost * 500 >= 4 * m * peak THEN <<Alert("drawdown", "high")>>
      ELSE IF lost * 500 >= 3 * m * peak THEN <<Alert("drawdown", "medium")>>
      ELSE <<>>

check_daily_loss_limits(s) ==
  LET m == get_strategy_risk_limits(s).max_daily_loss
      loss == Abs(s.daily_pnl)
  IN  IF s.fail = "daily_loss" THEN <<Alert("error", "medium")>>
      ELSE IF ~(s.exists /\ s.daily_pnl < 0) THEN <<>>
      ELSE IF s.current_capital = 0 THEN <<Alert("error", "medium")>>
      ELSE IF PercentAtLeast(loss, s.current_capital, m) THEN <<Alert("daily_loss", "critical")>>
      ELSE IF loss * 500 >= 4 * m * s.current_capital THEN <<Alert("daily_loss", "high")>>
      ELSE <<>>

tech_symbols == {"AAPL", "MSFT", "GOOGL", "AMZN", "META", "NVDA", "TSLA"}

check_position_concentration(s) ==
  LET limits == get_strategy_risk_limits(s)
      total_value == SumMarketValue(s.positions)
      tech == SelectSeq(s.positions, LAMBDA p : p.symbol \in tech_symbols)
      big(p) == total_value > 0 /\ p.market_value * 100 > limits.max_position_size * total_value
      per_position == [n \in 1..Len(SelectSeq(s.positions, big)) |-> Alert("concentration", "high")]
      sector == IF total_value > 0 /\
                   SumMarketValue(tech) * 100 > limits.max_sector_exposure * total_value
                THEN <<Alert("sector_concentration", "medium")>> ELSE <<>>
  IN  IF s.fail = "concentration" THEN <<Alert("error", "medium")>>
      ELSE IF s.positions = <<>> THEN <<>>
      ELSE per_position \o sector

check_strategy_halt_conditions(s) ==
  check_drawdown_limits(s) \o check_daily_loss_limits(s) \o check_position_concentration(s)

\* the severity given to the alert of a trade larger than the safe maximum
oversize_severity == "high"

validate_trade(s, side, quantity, price) ==
  LET halt_alerts == check_strategy_halt_conditions(s)
      sized == calculate_position_size(s, price, 0)
      size_alerts == IF side = "buy" THEN sized.alerts ELSE <<>>
      daily_alerts == check_daily_loss_limits(s)
      drawdown_alerts == check_drawdown_limits(s)
      critical_of(as, type) ==
        \E n \in 1..Len(as) : as[n].alert_type = type /\ as[n].severity = "critical"
  IN  IF HasSeverity(halt_alerts, "critical")
        THEN [allowed |-> FALSE, alerts |-> halt_alerts]
      ELSE IF side = "buy" /\ quantity > sized.size
        THEN [allowed |-> FALSE,
              alerts |-> Append(size_alerts, Alert("position_size", oversize_severity))]
      ELSE IF critical_of(daily_alerts, "daily_loss")
        THEN [allowed |-> FALSE, alerts |-> size_alerts \o daily_alerts]
      ELSE IF critical_of(drawdown_alerts, "drawdown")
        THEN [allowed |-> FALSE, alerts |-> size_alerts \o daily_alerts \o drawdown_alerts]
      ELSE [allowed |-> TRUE, alerts |-> size_alerts \o daily_alerts \o drawdown_alerts]

(***************************************************************************)
(* TradingService.place_order on one scenario.  quantity10 is the order    *)
(* quantity in tenths of a unit (fractional quantities are legal for       *)
(* crypto); validate_trade is handed int(quantity).                        *)
(***************************************************************************)
NoAlert == Alert("none", "none")
NoScenario == [exists |-> FALSE]
NoOutcome == [validated |-> FALSE]

RECURSIVE FirstCritical(_)
FirstCritical(alerts) ==
  IF alerts = <<>> THEN NoAlert
  ELSE IF Head(alerts).severity = "critical" THEN Head(alerts)
  ELSE FirstCritical(Tail(alerts))

place_order ==
  /\ rk_pc = "ready"
  /\ \E broker_ok \in BOOLEAN :
       LET s == rk_in
           vt == validate_trade(s, s.side, s.quantity10 \div 10, s.price)
           blocked == s.validate_risk /\ ~vt.allowed /\ HasSeverity(vt.alerts, "critical")
       IN  rk_out' = [validated |-> s.validate_risk,
                      allowed |-> vt.allowed,
                      alerts |-> vt.alerts,
                      error |-> IF blocked THEN "Trade blocked by risk management"
                                ELSE IF ~broker_ok THEN "brokerage error" ELSE "none",
                      error_alert |-> IF blocked THEN FirstCritical(vt.alerts) ELSE NoAlert,
                      submitted |-> ~blocked,
                      trade_recorded |-> ~blocked /\ broker_ok]
  /\ rk_pc' = "done"
  /\ UNCHANGED <<rk_in, schedVars, instVars, btVars, rqVars, sgVars, lgVars, scVars>>

\* RiskManagementService.calculate_position_size called on the scenario's
\* strategy and price with a stop loss price
StopLosses == {0, 90, 100}

position_sizing ==
  /\ rk_pc = "ready"
  /\ \E stop_loss_price \in StopLosses :
       LET sized == calculate_position_size(rk_in, rk_in.price, stop_loss_price)
       IN  rk_out' = [size |-> sized.size, alerts |-> sized.alerts,
                      stop_loss_price |-> stop_loss_price]
  /\ rk_pc' = "sized"
  /\ UNCHANGED <<rk_in, schedVars, instVars, btVars, rqVars, sgVars, lgVars, scVars>>

Capitals == {0, 7100, 8500, 8700, 8800, 9000, 9100, 10000}
DailyPnls == {0, -300, -450, -600}
Portfolios == {<<>>,
               <<[symbol |-> "AAPL", market_value |-> 2000]>>,
               <<[symbol |-> "BTCUSD", market_value |-> 500],
                 [symbol |-> "SPY", market_value |-> 9500]>>,
               <<[symbol |-> "SPY", market_value |-> -9500]>>}
RiskConfigs == {<<>>, [max_position_size |-> 20], [max_drawdown |-> 29]}
Quantities10 == {5, 50, 100, 500}
Prices == {0, 100}

\* the check in which a query of the record store raises
FailingChecks == {"drawdown", "daily_loss", "concentration", "size"}

\* scenarios in which one check cannot be evaluated; everything the other
\* checks measure is far from its limit
FailingScenarios ==
  [exists : {TRUE}, current_capital : {10000}, initial_capital : {10000},
   peak_metric : {0}, daily_pnl : {0, -100}, positions : {<<>>},
   risk_config : {<<>>}, fail : FailingChecks,
   side : {"buy", "sell"}, quantity10 : {5, 50}, price : {100},
   validate_risk : BOOLEAN]

Scenarios ==
  [exists : BOOLEAN, current_capital : Capitals, initial_capital : {10000},
   peak_metric : {0, 10000}, daily_pnl : DailyPnls, positions : Portfolios,
   risk_config : RiskConfigs, fail : {"none"},
   side : {"buy", "sell"}, quantity10 : Quantities10, price : Prices,
   validate_risk : BOOLEAN]
  \cup FailingScenarios

RiskReady ==
  /\ rk_in \in Scenarios
  /\ rk_pc = "ready"
  /\ rk_out = NoOutcome

RiskIdle ==
  /\ rk_in = NoScenario
  /\ rk_pc = "off"
  /\ rk_out = NoOutcome

SchedIdle ==
  /\ running_strategies = <<>>
  /\ strategy_instances = [i \in Ids |-> 0]
  /\ _shutdown = FALSE
  /\ db = [i \in Ids |-> "missing"]
  /\ threads = [t \in CallIds |-> NoThread]
  /\ inst_running = [t \in CallIds |-> FALSE]
  /\ callers = [c \in Callers |-> IdleCaller]
  /\ ncalls = 0
  /\ wins = [i \in Ids |-> 0]

(***************************************************************************)
(* One strategy instance and the calls of the strategy contract: start(),  *)
(* stop() and run_iteration().  kind is "typed" (TypedBTCScalpingStrategy), *)
(* "legacy" (BTCScalpingStrategy, the settings bag) or "portfolio"         *)
(* (TypedPortfolioDistributorStrategy).  The settings are those the        *)
(* instance reads; position_size, take_profit_pct and stop_loss_pct are in *)
(* thousandths.  orders counts the orders submitted, fetches the requests  *)
(* for market data.                                                        *)
(***************************************************************************)
MaxOps == 4

Kinds == {"typed", "legacy", "portfolio"}
BTCKinds == {"typed", "legacy"}

SettingsSet ==
  [present : BOOLEAN, short_ma_periods : {3, 5, 7}, long_ma_periods : {5},
   position_size : {0, 1}, take_profit_pct : {0, 2}, stop_loss_pct : {0, 1}]

NoInstance == [kind |-> "none"]

InstIdle == inst = NoInstance

\* __init__: is_running = False, current_position = None
NewInstances ==
  {st \in [kind : Kinds, settings : SettingsSet, is_running : {FALSE},
           current_position : {FALSE}, orders : {0}, fetches : {0}, nops : {0},
           last : {"new"}, ret : {"none"}, prev : {"new"}, prev_ret : {"none"},
           start_ret : {"none"}, registered : {"none"},
           backtests : {0}, engine_fetches : {0}, backtest_fetches : {0}] :
     st.kind = "legacy" => st.settings.present}

FreshInst == inst \in NewInstances

\* a call of the contract has returned: the history of the last two calls
Did(op, result, st) ==
  [st EXCEPT !.nops = @ + 1, !.prev = st.last, !.prev_ret = st.ret,
             !.last = op, !.ret = result]

\* BTCScalpingStrategy.validate_settings checks the values and the windows;
\* TypedBaseStrategy.validate_settings only that there are settings
validate_settings(st) ==
  IF st.kind = "legacy"
  THEN /\ st.settings.position_size > 0
       /\ st.settings.take_profit_pct > 0
       /\ st.settings.stop_loss_pct > 0
       /\ st.settings.short_ma_periods > 0
       /\ st.settings.long_ma_periods > 0
       /\ st.settings.short_ma_periods < st.settings.long_ma_periods
  ELSE st.settings.present

\* start(): False when the settings are not valid (typed: or not of the
\* strategy's settings class); else is_running = True, return True
start_result(st) ==
  [st EXCEPT !.is_running = IF validate_settings(st) THEN TRUE ELSE @,
             !.start_ret = IF validate_settings(st) THEN "true" ELSE "false"]

strategy_start ==
  /\ inst.nops < MaxOps
  /\ inst' = Did("start", start_result(inst).start_ret, start_result(inst))
  /\ UNCHANGED <<schedVars, riskVars, btVars, rqVars, sgVars, lgVars, scVars>>

\* the scheduler creates the instance and calls start(): the typed runner
\* returns the instance only when start() returned True, the legacy runner
\* returns a BTC instance whatever start() returned; start_strategy registers
\* the instance it is given
create_strategy_instance ==
  /\ inst.nops = 0
  /\ LET st == Did("start", start_result(inst).start_ret, start_result(inst))
     IN  inst' = [st EXCEPT !.registered =
                    IF inst.kind = "legacy" \/ st.start_ret = "true" THEN "true" ELSE "false"]
  /\ UNCHANGED <<schedVars, riskVars, btVars, rqVars, sgVars, lgVars, scVars>>

\* a stop() that reports failure on an instance that is not running
strategy_stop_fails_when_stopped ==
  /\ inst.nops < MaxOps
  /\ \E order_placed \in BOOLEAN :
       LET closing == inst.kind \in BTCKinds /\ inst.current_position /\ order_placed
       IN  inst' = Did("stop", IF inst.is_running THEN "true" ELSE "false",
                       [inst EXCEPT !.is_running = FALSE,
                                    !.current_position = IF closing THEN FALSE ELSE @,
                                    !.orders = IF closing THEN @ + 1 ELSE @])
  /\ UNCHANGED <<schedVars, riskVars, btVars, rqVars, sgVars, lgVars, scVars>>

\* a stop() that leaves is_running set
strategy_stop_leaves_running ==
  /\ inst.nops < MaxOps
  /\ \E order_placed \in BOOLEAN :
       LET closing == inst.kind \in BTCKinds /\ inst.current_position /\ order_placed
       IN  inst' = Did("stop", "true",
                       [inst EXCEPT !.current_position = IF closing THEN FALSE ELSE @,
                                    !.orders = IF closing THEN @ + 1 ELSE @])
  /\ UNCHANGED <<schedVars, riskVars, btVars, rqVars, sgVars, lgVars, scVars>>

\* stop(): is_running = False; a BTC strategy that tracks a position calls
\* _exit_position("strategy_stop"), which clears the position when its order
\* was placed and logs the error when place_order raised; return True
strategy_stop ==
  /\ inst.nops < MaxOps
  /\ \E order_placed \in BOOLEAN :
       LET closing == inst.kind \in BTCKinds /\ inst.current_position /\ order_placed
       IN  inst' = Did("stop", "true",
                       [inst EXCEPT !.is_running = FALSE,
                                    !.current_position = IF closing THEN FALSE ELSE @,
                                    !.orders = IF closing THEN @ + 1 ELSE @])
  /\ UNCHANGED <<schedVars, riskVars, btVars, rqVars, sgVars, lgVars, scVars>>

\* run_iteration(): returns at once when the instance is not running (typed:
\* or has no settings).  Else it requests the recent bars; a BTC strategy
\* without a position may enter one on a BUY signal, one with a position may
\* exit it at take profit or stop loss; place_order may raise (logged).  A
\* portfolio strategy may place its investment orders.
strategy_run_iteration ==
  /\ inst.nops < MaxOps
  /\ IF ~inst.is_running \/ (inst.kind # "legacy" /\ ~inst.settings.present)
     THEN inst' = Did("run_iteration", "none", inst)
     ELSE \E order_wanted, order_placed \in BOOLEAN :
            LET placed == order_wanted /\ order_placed
            IN  inst' = Did("run_iteration", "none",
                            [inst EXCEPT !.fetches = @ + 1,
                                         !.orders = IF placed THEN @ + 1 ELSE @,
                                         !.current_position =
                                            IF placed /\ inst.kind \in BTCKinds
                                            THEN ~@ ELSE @])
  /\ UNCHANGED <<schedVars, riskVars, btVars, rqVars, sgVars, lgVars, scVars>>

\* A backtest run for the strategy, while its live instance goes on:
\* BacktestingEngine.run_backtest reads the Strategy record, builds an
\* instance of its own, gets the historical data and calls backtest().  For
\* a BTC strategy the engine requests the bars from the brokerage's crypto
\* data client (engine_fetches) and backtest() replays them; for a portfolio
\* strategy the engine hands over a frame of metadata and backtest() itself
\* requests the bars of each symbol from the brokerage's stock data client
\* (backtest_fetches).  No order is placed and no record is written.
MaxBacktests == 2
PortfolioSymbols == {"AAPL", "MSFT", "GOOGL", "TSLA", "SPY"}

strategy_backtest ==
  /\ inst.kind # "none" /\ inst.backtests < MaxBacktests
  /\ inst' = [inst EXCEPT !.backtests = @ + 1,
                          !.engine_fetches =
                             IF inst.kind \in BTCKinds THEN @ + 1 ELSE @,
                          !.backtest_fetches =
                             IF inst.kind = "portfolio"
                             THEN @ + Cardinality(PortfolioSymbols) ELSE @]
  /\ UNCHANGED <<schedVars, riskVars, btVars, rqVars, sgVars, lgVars, scVars>>

(***************************************************************************)
(* One backtest run of the BTC scalping simulation.  kind is "typed"       *)
(* (TypedBTCScalpingStrategy.backtest), "enhanced"                         *)
(* (EnhancedBacktestingService._simulate_btc_scalping_strategy) or         *)
(* "legacy" (BacktestingService._simulate_strategy).  bars is the series,  *)
(* k the 1-based index of the bar the loop visits next.  The moving        *)
(* averages and the price thresholds are computed from the closes; the     *)
(* indicators the model has no data for (volume, RSI, Bollinger bands, the *)
(* highs of the trailing stop) are a free boolean of each bar.             *)
(* take_profit_pct and stop_loss_pct are in thousandths, position_size is  *)
(* one unit.                                                               *)
(***************************************************************************)
MaxBars == 5
MinBars == 4

BtKinds == {"typed", "enhanced", "legacy"}
Closes == {97, 100, 102}
\* the timestamp columns the claims speak of: strictly increasing
Timestamps(n) ==
  {t \in [1..n -> 1..(n + 1)] : \A j \in 1..(n - 1) : t[j] < t[j + 1]}

BarSeries ==
  UNION {{[j \in 1..n |-> [timestamp |-> t[j], close |-> c[j]]] :
            t \in Timestamps(n), c \in [1..n -> Closes]} : n \in MinBars..MaxBars}

BtConfigs ==
  {c \in [short_ma_periods : {1, 2}, long_ma_periods : {2, 3},
          take_profit_pct : {2, 50}, stop_loss_pct : {1}, position_size : {1}] :
     c.short_ma_periods < c.long_ma_periods}

InitialCapitals == {150, 1000}

NoPosition == [side |-> "none"]
NoBacktest == [kind |-> "none"]
BtIdle == bt = NoBacktest

\* trades = [], capital = initial_capital, current_position = None,
\* equity_curve = []; the loop starts at index long_ma_periods
NewBacktests ==
  {[kind |-> kd, bars |-> b, config |-> c, capital |-> cap, initial_capital |-> cap,
    k |-> c.long_ma_periods + 1, current_position |-> NoPosition,
    trades |-> <<>>, equity_curve |-> <<>>, opened |-> 0, pc |-> "loop"] :
     kd \in BtKinds, b \in BarSeries, c \in BtConfigs, cap \in InitialCapitals}

RECURSIVE SumCloses(_, _, _)
SumCloses(b, from, to) ==
  IF from > to THEN 0 ELSE b[to].close + SumCloses(b, from, to - 1)

\* rolling(window).mean() of the closes at bar j, compared without dividing
short_above_long(b, j, c) ==
  SumCloses(b, j - c.short_ma_periods + 1, j) * c.long_ma_periods
    > SumCloses(b, j - c.long_ma_periods + 1, j) * c.short_ma_periods

short_below_long(b, j, c) ==
  SumCloses(b, j - c.short_ma_periods + 1, j) * c.long_ma_periods
    < SumCloses(b, j - c.long_ma_periods + 1, j) * c.short_ma_periods

\* _check_entry_signal / _check_enhanced_entry_signal: "buy", "sell" or "hold"
check_entry_signal(st, filters_ok) ==
  LET b == st.bars  j == st.k  c == st.config
      crossed_up == ~short_above_long(b, j - 1, c) /\ short_above_long(b, j, c)
      crossed_down == ~short_below_long(b, j - 1, c) /\ short_below_long(b, j, c)
  IN  IF st.kind = "typed"
      THEN IF crossed_up /\ filters_ok THEN "buy"
           ELSE IF crossed_down /\ filters_ok THEN "sell"
           ELSE "hold"
      ELSE IF /\ filters_ok
              /\ crossed_up
              /\ b[j].close * c.short_ma_periods > SumCloses(b, j - c.short_ma_periods + 1, j)
           THEN "buy" ELSE "hold"

\* _check_exit_condition / _check_enhanced_exit_condition: the exit reason,
\* "" for no exit
check_exit_condition(st, trailing_hit) ==
  LET pos == st.current_position
      p == st.bars[st.k].close
      e == pos.entry_price
      c == st.config
  IN  IF st.kind = "typed"
      THEN IF pos.side = "buy" /\ p * 100 < e * 98 THEN "Stop loss"
           ELSE IF pos.side = "sell" /\ p * 100 > e * 102 THEN "Stop loss"
           ELSE IF pos.side = "buy" /\ p * 100 > e * 101 THEN "Take profit"
           ELSE IF pos.side = "sell" /\ p * 100 < e * 99 THEN "Take profit"
           ELSE ""
      ELSE IF pos.side # "buy" THEN ""
           ELSE IF (p - e) * 1000 >= c.take_profit_pct * e THEN "take_profit"
           ELSE IF (p - e) * 1000 <= -(c.stop_loss_pct * e) THEN "stop_loss"
           ELSE IF st.kind = "enhanced" /\ (p - e) * 1000 > e /\ trailing_hit
                THEN "trailing_stop"
           ELSE ""

\* _calculate_position_pnl / _calculate_pnl
calculate_pnl(pos, price) ==
  IF pos.side = "buy" THEN (price - pos.entry_price) * pos.quantity
  ELSE (pos.entry_price - price) * pos.quantity

\* the record appended when a position is closed: the typed backtest appends
\* one BacktestTrade per order (pnl is None on the entry), the services one
\* dict per round trip
closing_trade(st, pos, ts, price, reason) ==
  IF st.kind = "typed"
  THEN [timestamp |-> ts, side |-> IF pos.side = "buy" THEN "sell" ELSE "buy",
        quantity |-> pos.quantity, price |-> price,
        pnl |-> <<calculate_pnl(pos, price)>>, reason |-> reason]
  ELSE [entry_time |-> pos.entry_time, exit_time |-> ts, side |-> pos.side,
        entry_price |-> pos.entry_price, exit_price |-> price,
        quantity |-> pos.quantity, pnl |-> <<calculate_pnl(pos, price)>>,
        exit_reason |-> reason]

\* the exit half of one loop iteration
after_exit(st, trailing_hit) ==
  LET pos == st.current_position
      ts == st.bars[st.k].timestamp
      price == st.bars[st.k].close
      reason == check_exit_condition(st, trailing_hit)
  IN  IF pos.side # "none" /\ reason # ""
      THEN [st EXCEPT !.capital = @ + calculate_pnl(pos, price),
                      !.trades = Append(@, closing_trade(st, pos, ts, price, reason)),
                      !.current_position = NoPosition]
      ELSE st

\* the entry half: the typed backtest enters on "buy" or "sell" and records
\* an entry trade (its quantity, capital * position_size_pct / price, is kept
\* as one unit here); the services buy position_size when the capital covers
\* it and reserve its value
after_entry(st, filters_ok) ==
  LET ts == st.bars[st.k].timestamp
      price == st.bars[st.k].close
      signal == check_entry_signal(st, filters_ok)
      pos == [side |-> signal, entry_time |-> ts, entry_price |-> price,
              quantity |-> st.config.position_size]
  IN  IF st.current_position.side # "none" THEN st
      ELSE IF st.kind = "typed"
      THEN IF signal \in {"buy", "sell"}
           THEN [st EXCEPT !.current_position = pos,
                           !.opened = @ + 1,
                           !.trades = Append(@, [timestamp |-> ts, side |-> signal,
                                                 quantity |-> pos.quantity, price |-> price,
                                                 pnl |-> <<>>, reason |-> "Entry signal"])]
           ELSE st
      ELSE IF signal = "buy" /\ st.capital >= price * st.config.position_size
           THEN [st EXCEPT !.current_position = pos,
                           !.opened = @ + 1,
                           !.capital = @ - price * st.config.position_size]
           ELSE st

\* the equity-curve point of the bar st.k: the cash and the cash plus the
\* open position's quantity at the bar's close
equity_point(st) ==
  LET price == st.bars[st.k].close
      pos == st.current_position
  IN  [timestamp |-> st.bars[st.k].timestamp,
       capital |-> st.capital,
       portfolio_value |-> IF pos.side # "none" THEN st.capital + pos.quantity * price
                           ELSE st.capital]

\* one iteration of `for i in range(long_ma_periods, len(data))`: the exit
\* check, the entry check and the equity point of the bar; the typed backtest
\* records the point first, the services last
backtest_bar ==
  /\ bt.kind # "none" /\ bt.pc = "loop" /\ bt.k <= Len(bt.bars)
  /\ \E trailing_hit, filters_ok \in BOOLEAN :
       LET st == after_entry(after_exit(bt, trailing_hit), filters_ok)
           point == IF bt.kind = "typed" THEN equity_point(bt) ELSE equity_point(st)
       IN  bt' = [st EXCEPT !.equity_curve = Append(@, point),
                            !.k = @ + 1]
  /\ UNCHANGED <<schedVars, riskVars, instVars, rqVars, sgVars, lgVars, scVars>>

\* the forced close that uses the first bar of the series
backtest_finish_at_first_bar ==
  /\ bt.kind # "none" /\ bt.pc = "loop" /\ bt.k > Len(bt.bars)
  /\ LET pos == bt.current_position
         last == bt.bars[1]
     IN  bt' = IF pos.side # "none"
               THEN [bt EXCEPT !.pc = "done",
                               !.capital = @ + calculate_pnl(pos, last.close),
                               !.trades = Append(@, closing_trade(bt, pos, last.timestamp, last.close,
                                              IF bt.kind = "typed" THEN "Backtest end" ELSE "backtest_end"))]
               ELSE [bt EXCEPT !.pc = "done"]
  /\ UNCHANGED <<schedVars, riskVars, instVars, rqVars, sgVars, lgVars, scVars>>

\* an end of run that leaves the last position without its closing trade
backtest_finish_leaves_open ==
  /\ bt.kind # "none" /\ bt.pc = "loop" /\ bt.k > Len(bt.bars)
  /\ bt' = [bt EXCEPT !.pc = "done"]
  /\ UNCHANGED <<schedVars, riskVars, instVars, rqVars, sgVars, lgVars, scVars>>

\* after the loop: a position that is still open is closed at the close of
\* data.iloc[-1], with that bar's timestamp; then the result is returned
backtest_finish ==
  /\ bt.kind # "none" /\ bt.pc = "loop" /\ bt.k > Len(bt.bars)
  /\ LET pos == bt.current_position
         last == bt.bars[Len(bt.bars)]
     IN  bt' = IF pos.side # "none"
               THEN [bt EXCEPT !.pc = "done",
                               !.capital = @ + calculate_pnl(pos, last.close),
                               !.trades = Append(@, closing_trade(bt, pos, last.timestamp, last.close,
                                              IF bt.kind = "typed" THEN "Backtest end" ELSE "backtest_end"))]
               ELSE [bt EXCEPT !.pc = "done"]
  /\ UNCHANGED <<schedVars, riskVars, instVars, rqVars, sgVars, lgVars, scVars>>

(***************************************************************************)
(* One backtest request, from the fetch of the bars to the value returned. *)
(* path is "enhanced" (EnhancedBacktestingService._run_btc_scalping_       *)
(* backtest), "generic" (BacktestingEngine.run_backtest with the typed BTC *)
(* strategy) or "legacy" (BacktestingService.run_backtest).  fetched is    *)
(* the number of bars the brokerage returned (-1: none, or the request     *)
(* failed).  The simulation itself is the one of SpecBt; here it is the    *)
(* count of loop iterations and whether a trade was made.                  *)
(***************************************************************************)
ReqPaths == {"enhanced", "generic", "legacy"}
FetchedCounts == {-1, 2, 19, 20, 30}
DaysBack == {-1, 1}
LongWindows == {5, 50}
MinRealBars == 20

DigitChars == <<"0", "1", "2", "3", "4", "5", "6", "7", "8", "9">>
Digit(n) == DigitChars[n + 1]
TwoDigits(n) == <<Digit(n \div 10), Digit(n % 10)>>
FourDigits(n) == TwoDigits(n \div 100) \o TwoDigits(n % 100)

\* str() of a pandas Timestamp: "YYYY-MM-DD HH:MM:SS", with "+00:00" when
\* the timestamp carries a time zone (brokerage bars do)
str_timestamp(ts) ==
  FourDigits(ts.year) \o <<"-">> \o TwoDigits(ts.month) \o <<"-">> \o TwoDigits(ts.day)
    \o <<" ">> \o TwoDigits(ts.hour) \o <<":">> \o TwoDigits(ts.minute) \o <<":", "0", "0">>
    \o (IF ts.tz THEN <<"+", "0", "0", ":", "0", "0">> ELSE <<>>)

\* Python's `needle in hay` on strings
Contains(needle, hay) ==
  \E i \in 1..(Len(hay) - Len(needle) + 1) : SubSeq(hay, i, i + Len(needle) - 1) = needle

SyntheticWord == <<"s", "y", "n", "t", "h", "e", "t", "i", "c">>

\* the first bar's timestamp: brokerage bars are on the hour and carry a
\* time zone, generated bars start at datetime.now() - days_back
FirstTimestamps(origin) ==
  [year : {2024}, month : {1, 12}, day : {1, 28}, hour : {0, 13},
   minute : IF origin = "real" THEN {0} ELSE {0, 47}, tz : {origin = "real"}]

NewRequests ==
  [path : ReqPaths, fetched : FetchedCounts, long_ma_periods : LongWindows,
   days_back : DaysBack, pc : {"fetch"}, origin : {"none"}, nbars : {0},
   first_timestamp : {<<>>}, trades : {0}, data_source : {"unset"},
   outcome : {"none"}, error : {""}, raw : {[t |-> "none"]}, result : {[t |-> "none"]}]

\* pd.date_range(start, end, freq='H') over days_back days
generated_bars(days_back) == IF days_back < 0 THEN 0 ELSE 24 * days_back + 1

\* A float is not-a-number, an infinity (v is its sign) or a finite value
\* (v in hundredths).
NaN == [c |-> "nan", v |-> 0]
PosInf == [c |-> "inf", v |-> 1]
NegInf == [c |-> "inf", v |-> -1]
Fin(n) == [c |-> "fin", v |-> n]
LargeSentinel == 99999
Floats == {NaN, PosInf, NegInf, Fin(0), Fin(-250), Fin(10000)}

\* IEEE addition and multiplication on these values
FAdd(a, b) ==
  IF a.c = "nan" \/ b.c = "nan" THEN NaN
  ELSE IF a.c = "inf" /\ b.c = "inf" THEN (IF a.v = b.v THEN a ELSE NaN)
  ELSE IF a.c = "inf" THEN a
  ELSE IF b.c = "inf" THEN b
  ELSE Fin(a.v + b.v)

Sign(n) == IF n > 0 THEN 1 ELSE IF n < 0 THEN -1 ELSE 0

FMul(a, b) ==
  IF a.c = "nan" \/ b.c = "nan" THEN NaN
  ELSE IF a.c = "inf" \/ b.c = "inf"
       THEN (IF Sign(a.v) * Sign(b.v) = 0 THEN NaN
             ELSE [c |-> "inf", v |-> Sign(a.v) * Sign(b.v)])
  ELSE Fin((a.v * b.v) \div 100)

\* The values of a result: t is "dict" or "list" (items), "float" (a Python
\* float, numpy.float64 included), "npfloat" (a numpy scalar that is not a
\* float, with .item()), or "int", "str", "none", "datetime".
FloatNode(x) == [t |-> "float", x |-> x]
IntNode(n) == [t |-> "int", x |-> n]
StrNode == [t |-> "str"]
NoneNode == [t |-> "none"]
DatetimeNode == [t |-> "datetime"]
ListNode(items) == [t |-> "list", items |-> items]
DictNode(keys, items) == [t |-> "dict", keys |-> keys, items |-> items]

\* the float branch of the sanitation: nan -> 0.0, +inf -> 999.99,
\* -inf -> -999.99, else float(data)
sanitize_float(x) ==
  IF x.c = "nan" THEN Fin(0)
  ELSE IF x.c = "inf" THEN (IF x.v > 0 THEN Fin(LargeSentinel) ELSE Fin(-LargeSentinel))
  ELSE x

\* a sanitation that does not descend into lists
RECURSIVE _deep_sanitize_skips_lists(_)
_deep_sanitize_skips_lists(data) ==
  IF data.t = "dict"
  THEN [data EXCEPT !.items = [i \in 1..Len(data.items) |-> _deep_sanitize_skips_lists(data.items[i])]]
  ELSE IF data.t = "float" THEN FloatNode(sanitize_float(data.x))
  ELSE IF data.t = "npfloat" THEN FloatNode(sanitize_float(data.x))
  ELSE IF data.t = "datetime" THEN StrNode
  ELSE data

\* _deep_sanitize_for_json: dicts and lists recursively, floats and numpy
\* scalars sanitized, datetimes to isoformat strings, the rest unchanged
RECURSIVE _deep_sanitize_for_json(_)
_deep_sanitize_for_json(data) ==
  IF data.t = "dict"
  THEN [data EXCEPT !.items = [i \in 1..Len(data.items) |-> _deep_sanitize_for_json(data.items[i])]]
  ELSE IF data.t = "list"
  THEN [data EXCEPT !.items = [i \in 1..Len(data.items) |-> _deep_sanitize_for_json(data.items[i])]]
  ELSE IF data.t = "float" THEN FloatNode(sanitize_float(data.x))
  ELSE IF data.t = "npfloat" THEN FloatNode(sanitize_float(data.x))
  ELSE IF data.t = "datetime" THEN StrNode
  ELSE data

\* _sanitize_metrics_for_json: one level; ints, strings, lists and dicts are
\* copied, floats and numpy scalars sanitized, None becomes 0.0
_sanitize_metrics_for_json(metrics) ==
  [metrics EXCEPT !.items =
     [i \in 1..Len(metrics.items) |->
        LET value == metrics.items[i]
        IN  IF value.t \in {"int", "str", "list", "dict"} THEN value
            ELSE IF value.t \in {"float", "npfloat"} THEN FloatNode(sanitize_float(value.x))
            ELSE FloatNode(Fin(0))]]

(***************************************************************************)
(* The performance metrics of a finished run.  A metric that is a quotient *)
(* is kept as the pair of its numerator and its positive denominator;      *)
(* 999.99 is 99999 / 100.                                                  *)
(***************************************************************************)
Ratio(n, d) == [n |-> n, d |-> d]
Whole(n) == Ratio(n, 1)
RatioGreater(a, b) == a.n * b.d > b.n * a.d
RatioEqual(a, b) == a.n * b.d = b.n * a.d

\* sum(t["pnl"] for t in winning_trades), abs(sum(... for t in losing_trades))
RECURSIVE gross_profit(_)
gross_profit(trades) ==
  IF trades = <<>> THEN 0
  ELSE (IF Head(trades).pnl # <<>> /\ Head(trades).pnl[1] > 0 THEN Head(trades).pnl[1] ELSE 0)
       + gross_profit(Tail(trades))

RECURSIVE gross_loss(_)
gross_loss(trades) ==
  IF trades = <<>> THEN 0
  ELSE (IF Head(trades).pnl # <<>> /\ Head(trades).pnl[1] < 0 THEN -Head(trades).pnl[1] ELSE 0)
       + gross_loss(Tail(trades))

\* the largest (peak - portfolio_value) / peak * 100 over the points of the
\* curve, the peak being the running maximum that starts at the initial
\* capital; 0 for an empty curve
RECURSIVE max_drawdown(_, _)
max_drawdown(curve, peak) ==
  IF curve = <<>> THEN Whole(0)
  ELSE LET pv == Head(curve).portfolio_value
           top == IF pv > peak THEN pv ELSE peak
           here == Ratio((top - pv) * 100, top)
           rest == max_drawdown(Tail(curve), top)
       IN  IF RatioGreater(rest, here) THEN rest ELSE here

\* _get_empty_performance_metrics
_get_empty_performance_metrics(final_capital, initial_capital) ==
  [final_capital |-> final_capital, total_return |-> final_capital - initial_capital,
   total_trades |-> 0, profit_factor |-> Whole(0), max_drawdown |-> Whole(0),
   recovery_factor |-> Whole(0)]

\* _calculate_enhanced_performance_metrics: the values are finite, and
\* _sanitize_metrics_for_json returns finite values as they are
_calculate_enhanced_performance_metrics(st) ==
  LET total_return == st.capital - st.initial_capital
      profit == gross_profit(st.trades)
      loss == gross_loss(st.trades)
      drawdown == max_drawdown(st.equity_curve, st.initial_capital)
  IN  IF st.trades = <<>> THEN _get_empty_performance_metrics(st.capital, st.initial_capital)
      ELSE [final_capital |-> st.capital, total_return |-> total_return,
            total_trades |-> Len(st.trades),
            profit_factor |-> IF loss > 0 THEN Ratio(profit, loss)
                              ELSE Ratio(LargeSentinel, 100),
            max_drawdown |-> drawdown,
            recovery_factor |-> IF drawdown.n > 0
                                THEN Ratio(Abs(total_return) * drawdown.d, drawdown.n)
                                ELSE Ratio(LargeSentinel, 100)]

\* BacktestingService._calculate_performance_metrics and the metrics of
\* TypedBTCScalpingStrategy.backtest: neither has a profit or a recovery factor
performance_metrics(st) ==
  IF st.kind = "enhanced" THEN _calculate_enhanced_performance_metrics(st)
  ELSE IF st.kind = "legacy" /\ st.trades = <<>>
  THEN [final_capital |-> st.capital, total_return |-> 0, total_trades |-> 0,
        max_drawdown |-> Whole(0)]
  ELSE [final_capital |-> st.capital, total_return |-> st.capital - st.initial_capital,
        total_trades |-> Len(st.trades),
        max_drawdown |-> max_drawdown(st.equity_curve, st.initial_capital)]

\* the metrics computed from the result of the simulation
backtest_metrics ==
  /\ bt.kind # "none" /\ bt.pc = "done"
  /\ bt' = [kind |-> bt.kind, pc |-> "reported", initial_capital |-> bt.initial_capital,
            capital |-> bt.capital, trades |-> bt.trades, equity_curve |-> bt.equity_curve,
            current_position |-> bt.current_position, bars |-> bt.bars, config |-> bt.config,
            k |-> bt.k, opened |-> bt.opened, metrics |-> performance_metrics(bt)]
  /\ UNCHANGED <<schedVars, riskVars, instVars, rqVars, sgVars, lgVars, scVars>>

\* the close of the bar on which the open position is valued
ValuationCloses == {Fin(9700), Fin(10000)}

\* the response before it is returned.  Enhanced: the metrics (already
\* through _sanitize_metrics_for_json when there are trades), the trade
\* dicts with pnl_pct = pnl / (entry_price * quantity) * 100 (0/0 when the
\* configured position_size is 0) and the equity curve.  Engine: the values
\* of the BacktestResult, trades with timestamp.isoformat(), price and pnl.
\* The equity point is capital + quantity * close.
raw_response(st, metric, pnl_pct, close) ==
  LET trade == IF st.path = "generic"
               THEN DictNode(<<"timestamp", "price", "pnl">>,
                             <<StrNode, FloatNode(close), NoneNode>>)
               ELSE DictNode(<<"entry_time", "pnl_pct", "exit_reason">>,
                             <<DatetimeNode, FloatNode(pnl_pct), StrNode>>)
      trades == IF st.trades = 0 THEN <<>> ELSE <<trade>>
      point == DictNode(<<"timestamp", "portfolio_value">>,
                        <<DatetimeNode, FloatNode(FAdd(Fin(900000), FMul(Fin(100), close)))>>)
      metrics == DictNode(<<"total_trades", "sharpe_ratio">>,
                          <<IntNode(st.trades), FloatNode(metric)>>)
  IN  DictNode(<<"metrics", "trades", "equity_curve">>,
               <<IF st.path = "enhanced" /\ st.trades > 0
                 THEN _sanitize_metrics_for_json(metrics) ELSE metrics,
                 ListNode(trades), ListNode(<<point>>)>>)

\* the bars the simulation will run on: the enhanced service generates a
\* series when it got fewer than 20 bars, the engine when it got none, the
\* legacy service raises when it got fewer than 20
rq_fetch ==
  /\ rq.path # "none" /\ rq.pc = "fetch"
  /\ LET use_real == IF rq.path = "generic" THEN rq.fetched > 0
                     ELSE rq.fetched >= MinRealBars
         origin == IF use_real THEN "real" ELSE "generated"
         n == IF use_real THEN rq.fetched ELSE generated_bars(rq.days_back)
     IN  IF rq.path = "legacy" /\ ~use_real
         THEN rq' = [rq EXCEPT !.pc = "done", !.outcome = "raised",
                               !.error = "ValueError: Insufficient historical data for backtesting"]
         ELSE IF rq.path = "generic" /\ n = 0
         THEN rq' = [rq EXCEPT !.pc = "done", !.outcome = "raised", !.origin = origin,
                               !.error = "ValueError: No historical data available"]
         ELSE \E ts \in FirstTimestamps(origin) :
                rq' = [rq EXCEPT !.pc = "simulate", !.origin = origin, !.nbars = n,
                                 !.first_timestamp = IF n > 0 THEN str_timestamp(ts) ELSE <<>>]
  /\ UNCHANGED <<schedVars, riskVars, instVars, btVars, sgVars, lgVars, scVars>>

\* a simulation that reads the bar at index long_ma_periods before the loop
rq_simulate_reads_first_loop_bar ==
  /\ rq.path # "none" /\ rq.pc = "simulate"
  /\ LET iterations == IF rq.nbars > rq.long_ma_periods THEN rq.nbars - rq.long_ma_periods ELSE 0
     IN  IF rq.nbars <= rq.long_ma_periods
         THEN rq' = [rq EXCEPT !.pc = "done",
                               !.outcome = IF rq.path = "enhanced" THEN "error_response" ELSE "raised",
                               !.error = "IndexError"]
         ELSE \E made \in {0, 1} :
                rq' = [rq EXCEPT !.pc = "respond", !.trades = made,
                                 !.data_source =
                                   IF rq.path # "enhanced" THEN "unset"
                                   ELSE IF Contains(SyntheticWord, rq.first_timestamp)
                                        THEN "synthetic" ELSE "real"]
  /\ UNCHANGED <<schedVars, riskVars, instVars, btVars, sgVars, lgVars, scVars>>

\* the simulation: for i in range(long_ma_periods, len(bars)) runs no
\* iteration on a short series; the enhanced service then derives the tag
\* from str() of the first bar's timestamp.  A frame without rows has no
\* 'close' column: KeyError, which the enhanced service turns into its
\* error response.
rq_simulate ==
  /\ rq.path # "none" /\ rq.pc = "simulate"
  /\ LET iterations == IF rq.nbars > rq.long_ma_periods THEN rq.nbars - rq.long_ma_periods ELSE 0
     IN  IF rq.nbars = 0
         THEN rq' = [rq EXCEPT !.pc = "done", !.outcome = "error_response",
                               !.error = "KeyError"]
         ELSE \E made \in (IF iterations = 0 THEN {0} ELSE {0, 1}) :
                rq' = [rq EXCEPT !.pc = "respond", !.trades = made,
                                 !.data_source =
                                   IF rq.path # "enhanced" THEN "unset"
                                   ELSE IF Contains(SyntheticWord, rq.first_timestamp)
                                        THEN "synthetic" ELSE "real"]
  /\ UNCHANGED <<schedVars, riskVars, instVars, btVars, sgVars, lgVars, scVars>>

\* the value returned: the enhanced response takes results.get("data_source",
\* "real"), _convert_to_api_format writes "data_source": "real", the legacy
\* response has no such key.  The enhanced service passes the whole response
\* through _deep_sanitize_for_json; the engine and the legacy service return
\* the values as computed.  The metrics of the enhanced service with trades
\* and its pnl_pct may be any float before sanitation; the Sharpe ratio of a
\* run without trades, and of the engine, is 0 or guarded by std > 0.
rq_respond ==
  /\ rq.path # "none" /\ rq.pc = "respond"
  /\ \E metric \in (IF rq.path = "enhanced" /\ rq.trades > 0 THEN Floats ELSE {Fin(0)}),
        pnl_pct \in (IF rq.path = "enhanced" /\ rq.trades > 0 THEN Floats ELSE {Fin(0)}),
        close \in ValuationCloses :
       LET raw == raw_response(rq, metric, pnl_pct, close)
       IN  rq' = [rq EXCEPT !.pc = "done", !.outcome = "result",
                            !.data_source = IF rq.path = "enhanced" THEN rq.data_source
                                            ELSE IF rq.path = "generic" THEN "real"
                                            ELSE "absent",
                            !.raw = raw,
                            !.result = IF rq.path = "enhanced"
                                       THEN _deep_sanitize_for_json(raw) ELSE raw]
  /\ UNCHANGED <<schedVars, riskVars, instVars, btVars, sgVars, lgVars, scVars>>

(***************************************************************************)
(* The live BTC scalping strategy: one run_iteration of                    *)
(* TypedBTCScalpingStrategy ("typed") or BTCScalpingStrategy ("legacy")    *)
(* over the bars _get_recent_bars returned.  bars is the series (close and *)
(* volume of each bar), settings the strategy's settings, now the clock,   *)
(* last_signal_time <<>> for None and <<t>> otherwise, current_position    *)
(* the open position.  Percentages are in thousandths, confidences in      *)
(* hundredths, times in seconds.  The advisory service either answers,     *)
(* answers with a malformed document, raises inside its provider call, or  *)
(* has no provider at all; the order placed through the trading service    *)
(* either yields a trade or does not.                                      *)
(***************************************************************************)
SigKinds == {"typed", "legacy"}
SigLen == 6
PriorVolume == 1000
Volumes == {0, 500, 2000}
StartTime == 100000
Elapsed == {100, 300, 86500}
CooldownSeconds == 300
SecondsPerDay == 86400

\* the series: the first three closes are 100, every bar before the latest
\* one has the same volume
SigBars ==
  {[j \in 1..SigLen |->
      [close |-> IF j <= 3 THEN 100 ELSE c[j - 3],
       volume |-> IF j < SigLen THEN PriorVolume ELSE v]] :
     c \in [1..3 -> Closes], v \in Volumes}

\* BTCScalpingSettings; ai_override_technical is read by the legacy
\* strategy only
AdvisorySettings ==
  {[use_ai_analysis |-> FALSE, ai_confidence_threshold |-> 60,
    combine_ai_with_technical |-> TRUE]}
    \cup [use_ai_analysis : {TRUE}, ai_confidence_threshold : {50, 60},
          combine_ai_with_technical : BOOLEAN]

\* paper_trading_mode and fallback_volume: the fallback is read in paper
\* trading mode only
PaperSettings ==
  {[paper_trading_mode |-> FALSE, fallback_volume |-> 10000]}
    \cup [paper_trading_mode : {TRUE}, fallback_volume : {500, 10000}]

SigSettings(kd) ==
  UNION {{[short_ma_periods |-> s, long_ma_periods |-> 5, min_volume |-> 1000,
           fallback_volume |-> p.fallback_volume,
           paper_trading_mode |-> p.paper_trading_mode,
           use_ai_analysis |-> a.use_ai_analysis,
           ai_confidence_threshold |-> a.ai_confidence_threshold,
           combine_ai_with_technical |-> a.combine_ai_with_technical,
           ai_override_technical |-> ov,
           take_profit_pct |-> tp, stop_loss_pct |-> 1, position_size |-> 1] :
            s \in {2, 3}, p \in PaperSettings,
            ov \in (IF kd = "legacy" /\ a.use_ai_analysis /\ a.combine_ai_with_technical
                         /\ a.ai_confidence_threshold = 60
                    THEN BOOLEAN ELSE {FALSE}),
            tp \in {2, 50}} :
         a \in AdvisorySettings}

\* an open long position entered at 100 by an earlier iteration, which set
\* last_signal_time as well
OpenLong(c) ==
  [side |-> "buy", entry_price |-> 100, quantity |-> c.position_size,
   take_profit_pct |-> c.take_profit_pct, stop_loss_pct |-> c.stop_loss_pct]

LastSignalTimes == {<<>>} \cup {<<StartTime - d>> : d \in Elapsed}

SignalsOf(kd, c) ==
  {[kind |-> kd, bars |-> b, settings |-> c, now |-> StartTime,
    last_signal_time |-> lp[1], current_position |-> lp[2],
    traditional_signal |-> "unset", signal |-> "unset",
    advisory |-> "unset", exit_reason |-> "", pc |-> "ready"] :
     b \in SigBars,
     lp \in (LastSignalTimes \X {NoPosition})
              \cup {<<<<StartTime - CooldownSeconds>>, OpenLong(c)>>}}

\* timedelta.seconds: the seconds field of a non-negative timedelta, the
\* days are a separate field
timedelta_seconds(d) == d % SecondsPerDay

\* latest['close'] > latest['short_ma']
price_above_short(b, j, c) ==
  b[j].close * c.short_ma_periods > SumCloses(b, j - c.short_ma_periods + 1, j)

\* "BUY" or "None"
_get_traditional_signal(s) ==
  LET b == s.bars
      n == Len(b)
      c == s.settings
      actual_volume == b[n].volume
      effective_volume == IF c.paper_trading_mode /\ actual_volume = 0
                          THEN c.fallback_volume ELSE actual_volume
  IN  IF /\ effective_volume < c.min_volume
         /\ ~(actual_volume = 0 /\ c.paper_trading_mode)
      THEN "None"
      ELSE IF /\ s.last_signal_time # <<>>
              /\ timedelta_seconds(s.now - s.last_signal_time[1]) < CooldownSeconds
      THEN "None"
      ELSE IF n < c.long_ma_periods \/ n < c.short_ma_periods
      THEN "None"
      ELSE IF short_above_long(b, n, c) /\ price_above_short(b, n, c)
      THEN "BUY"
      ELSE "None"

RECURSIVE SumVolumes(_, _, _)
SumVolumes(b, from, to) ==
  IF from > to THEN 0 ELSE b[to].volume + SumVolumes(b, from, to - 1)

\* AIAnalysisService.calculate_technical_indicators, the two entries
\* _fallback_analysis reads: the 3-bar and the 5-bar mean of the closes as
\* sums, <<>> when the series has fewer than five bars
calculate_technical_indicators(b) ==
  LET n == Len(b)
  IN  IF n < 5 THEN <<>>
      ELSE <<[short_ma |-> SumCloses(b, n - 2, n), long_ma |-> SumCloses(b, n - 4, n)]>>

\* AIAnalysisService._fallback_analysis: signal and confidence
_fallback_analysis(b) ==
  LET n == Len(b)
      ind == calculate_technical_indicators(b)
      latest_price == b[n].close
      prev_price == b[n - 1].close
      change == latest_price - prev_price
      first == IF n > 5 THEN n - 4 ELSE 1
      \* short_ma > long_ma and latest_price > short_ma, the defaults being
      \* latest_price
      up == ind # <<>> /\ ind[1].short_ma * 5 > ind[1].long_ma * 3
                       /\ latest_price * 3 > ind[1].short_ma
      down == ind # <<>> /\ ind[1].short_ma * 5 < ind[1].long_ma * 3
                         /\ latest_price * 3 < ind[1].short_ma
      \* volume > avg_volume * 1.2
      volume_up == b[n].volume * 10 * (n - first + 1) > SumVolumes(b, first, n) * 12
      signal == IF up /\ change * 1000 > prev_price /\ volume_up THEN "BUY"
                ELSE IF down /\ change * 1000 < -prev_price THEN "SELL"
                ELSE "HOLD"
      confidence == IF signal = "BUY" THEN 70 ELSE IF signal = "SELL" THEN 60 ELSE 50
      volatile == change * 100 > 2 * prev_price \/ change * 100 < -(2 * prev_price)
  IN  IF n < 2 THEN [signal |-> "HOLD", confidence |-> 30]
      ELSE [signal |-> signal,
            confidence |-> IF volatile THEN (confidence * 8) \div 10 ELSE confidence]

\* what the advisory call of one iteration does
Advisories ==
  [kind : {"unavailable", "raises", "malformed"}, signal : {"HOLD"}, confidence : {0}]
    \cup {[kind |-> "answers", signal |-> "BUY", confidence |-> 90],
          [kind |-> "answers", signal |-> "HOLD", confidence |-> 50]}

NoAdvisory == [kind |-> "disabled", signal |-> "HOLD", confidence |-> 0]

\* AIAnalysisService.analyze_market_data: the provider's answer, the
\* fallback analysis when there is no provider or its call raises
analyze_market_data(b, adv) ==
  IF adv.kind = "answers" THEN [signal |-> adv.signal, confidence |-> adv.confidence]
  ELSE _fallback_analysis(b)

_combine_signals(s, traditional_signal, ai_signal, ai_confidence) ==
  LET c == s.settings
  IN  IF ai_confidence < c.ai_confidence_threshold THEN traditional_signal
      ELSE IF s.kind = "legacy" /\ c.ai_override_technical /\ ai_confidence > 80
      THEN ai_signal
      ELSE IF c.combine_ai_with_technical
      THEN IF traditional_signal = "BUY" /\ ai_signal = "BUY" THEN "BUY"
           ELSE IF traditional_signal = "SELL" /\ ai_signal = "SELL" THEN "SELL"
           ELSE "None"
      ELSE IF ai_confidence > 70 THEN ai_signal
      ELSE traditional_signal

_analyze_market(s, adv) ==
  LET traditional_signal == _get_traditional_signal(s)
      ai_analysis == analyze_market_data(s.bars, adv)
  IN  IF Len(s.bars) < s.settings.long_ma_periods THEN "None"
      ELSE IF ~s.settings.use_ai_analysis THEN traditional_signal
      ELSE IF adv.kind = "malformed" THEN traditional_signal
      ELSE _combine_signals(s, traditional_signal, ai_analysis.signal,
                            ai_analysis.confidence)

\* _enter_position: the position and last_signal_time are set when the
\* order yields a trade
_enter_position(s, price, trade) ==
  IF trade
  THEN [s EXCEPT !.current_position =
                    [side |-> "buy", entry_price |-> price,
                     quantity |-> s.settings.position_size,
                     take_profit_pct |-> s.settings.take_profit_pct,
                     stop_loss_pct |-> s.settings.stop_loss_pct],
                 !.last_signal_time = <<s.now>>]
  ELSE s

_execute_signal(s, signal, trade) ==
  IF s.current_position.side # "none" THEN s
  ELSE IF signal = "BUY" THEN _enter_position(s, s.bars[Len(s.bars)].close, trade)
  ELSE s

\* the exit reason _manage_position finds for the latest close, "" for none:
\* take_profit_price is entry * (1 + take_profit_pct), stop_loss_price
\* entry * (1 - stop_loss_pct)
live_exit_reason(pos, price) ==
  IF pos.side # "buy" THEN ""
  ELSE IF price * 1000 >= pos.entry_price * (1000 + pos.take_profit_pct) THEN "take_profit"
  ELSE IF price * 1000 <= pos.entry_price * (1000 - pos.stop_loss_pct) THEN "stop_loss"
  ELSE ""

\* _manage_position and _exit_position: the position is cleared when the
\* closing order yields a trade
_manage_position(s, trade) ==
  LET reason == live_exit_reason(s.current_position, s.bars[Len(s.bars)].close)
  IN  IF s.current_position.side = "none" \/ reason = "" THEN s
      ELSE IF trade THEN [s EXCEPT !.current_position = NoPosition,
                                   !.exit_reason = reason]
      ELSE s

\* run_iteration: analyse, execute the signal, manage the position
sg_run_iteration ==
  /\ sg.kind # "none" /\ sg.pc = "ready"
  /\ \E adv \in (IF sg.settings.use_ai_analysis THEN Advisories ELSE {NoAdvisory}),
        trade \in BOOLEAN :
       LET signal == _analyze_market(sg, adv)
           s1 == IF signal # "None" THEN _execute_signal(sg, signal, trade) ELSE sg
           s2 == _manage_position(s1, trade)
       IN  sg' = [s2 EXCEPT !.traditional_signal = _get_traditional_signal(sg),
                            !.signal = signal,
                            !.advisory = adv.kind,
                            !.pc = "done"]
  /\ UNCHANGED <<schedVars, riskVars, instVars, btVars, rqVars, lgVars, scVars>>

(***************************************************************************)
(* The stored trades and positions of one strategy (TradingService) and    *)
(* the brokerage account they are synchronised with.  trades[n] is the     *)
(* Trade row of the n-th recorded order, orders[o] the status the          *)
(* brokerage holds for order o; positions[sym] is the stored Position row  *)
(* of a symbol (quantity 0 and side "none": no row), broker[sym] the       *)
(* quantity of the brokerage's open position (0: none reported).  op is    *)
(* the operation that ran last.                                            *)
(***************************************************************************)
MaxOrders == 2
LedgerSymbols == {"BTCUSD", "SPY"}
BrokerQuantities == {-1, 0, 1}
TerminalOrderStatuses == {"filled", "canceled", "rejected"}
NoRow == [quantity |-> 0, side |-> "none"]

NewLedger ==
  [kind |-> "ledger", trades |-> <<>>, orders |-> <<>>,
   positions |-> [sym \in LedgerSymbols |-> NoRow],
   broker |-> [sym \in LedgerSymbols |-> 0], op |-> "new"]

\* place_order after the risk gate: the order is submitted and the Trade row
\* is stored with the status of the submitted order, pending for an order
\* the brokerage has accepted and filled for one it filled at once; when the
\* commit fails the order stays without a row
lg_place_order ==
  /\ lg.kind = "ledger" /\ Len(lg.orders) < MaxOrders
  /\ \E submitted_as \in {"new", "filled"}, recorded \in BOOLEAN :
       lg' = [lg EXCEPT !.orders = Append(@, submitted_as),
                        !.trades = IF recorded
                                   THEN Append(@, [order |-> Len(lg.orders) + 1,
                                                   status |-> IF submitted_as = "filled"
                                                              THEN "filled" ELSE "pending"])
                                   ELSE @,
                        !.op = "place_order"]
  /\ UNCHANGED <<schedVars, riskVars, instVars, btVars, rqVars, sgVars, scVars>>

\* the brokerage fills, cancels or rejects an open order
broker_order_event ==
  /\ lg.kind = "ledger"
  /\ \E o \in 1..Len(lg.orders), status \in TerminalOrderStatuses :
       /\ lg.orders[o] = "new"
       /\ lg' = [lg EXCEPT !.orders[o] = status, !.op = "broker"]
  /\ UNCHANGED <<schedVars, riskVars, instVars, btVars, rqVars, sgVars, scVars>>

\* the brokerage's position in a symbol changes: opened, closed or reversed
broker_position_event ==
  /\ lg.kind = "ledger"
  /\ \E sym \in LedgerSymbols, q \in BrokerQuantities :
       /\ lg.broker[sym] # q
       /\ lg' = [lg EXCEPT !.broker[sym] = q, !.op = "broker"]
  /\ UNCHANGED <<schedVars, riskVars, instVars, btVars, rqVars, sgVars, scVars>>

\* update_filled_orders: every Trade with status pending is looked up at the
\* brokerage; one whose order is FILLED becomes filled; commit.  When a
\* lookup raises, nothing is committed.
update_filled_orders ==
  /\ lg.kind = "ledger"
  /\ \E lookup_ok \in BOOLEAN :
       lg' = IF lookup_ok
             THEN [lg EXCEPT !.trades =
                     [n \in 1..Len(lg.trades) |->
                        IF lg.trades[n].status = "pending" /\ lg.orders[lg.trades[n].order] = "filled"
                        THEN [lg.trades[n] EXCEPT !.status = "filled"]
                        ELSE lg.trades[n]],
                              !.op = "update_filled_orders"]
             ELSE [lg EXCEPT !.op = "update_filled_orders raised"]
  /\ UNCHANGED <<schedVars, riskVars, instVars, btVars, rqVars, sgVars, scVars>>

\* update_positions: for every position the brokerage reports, the stored
\* row of the symbol gets the reported quantity (avg_price, current_price,
\* market_value, unrealized_pnl alike), or a new row is stored with side
\* "long" for a positive quantity and "short" otherwise; commit.  When
\* get_all_positions raises, nothing is committed.
update_positions ==
  /\ lg.kind = "ledger"
  /\ \E fetch_ok \in BOOLEAN :
       lg' = IF fetch_ok
             THEN [lg EXCEPT !.positions =
                     [sym \in LedgerSymbols |->
                        IF lg.broker[sym] = 0 THEN lg.positions[sym]
                        ELSE IF lg.positions[sym] # NoRow
                        THEN [lg.positions[sym] EXCEPT !.quantity = lg.broker[sym]]
                        ELSE [quantity |-> lg.broker[sym],
                              side |-> IF lg.broker[sym] > 0 THEN "long" ELSE "short"]],
                              !.op = "update_positions"]
             ELSE [lg EXCEPT !.op = "update_positions raised"]
  /\ UNCHANGED <<schedVars, riskVars, instVars, btVars, rqVars, sgVars, scVars>>

(***************************************************************************)
(* One live TypedBTCScalpingStrategy instance, its loop thread (which      *)
(* calls run_iteration) and a control thread (which calls start and stop). *)
(* In mode "sequential" a call begins only when no other call is in        *)
(* progress; in mode "concurrent" the statements of the two threads        *)
(* interleave.  entries and closes count the entry and the closing orders  *)
(* submitted to the brokerage.  place_order raises before it submits       *)
(* ("raised": refused by the risk gate or by the brokerage), raises after  *)
(* it has submitted ("unrecorded": the commit of the Trade failed) or      *)
(* returns the trade ("ok").                                               *)
(***************************************************************************)
MaxIterations == 3
MaxStops == 2
ScModes == {"sequential", "concurrent"}
PlaceOrderOutcomes == {"raised", "unrecorded", "ok"}

\* __init__: is_running = False, current_position = None
NewScalpers ==
  [kind : {"typed"}, mode : ScModes, is_running : {FALSE}, current_position : {FALSE},
   loop : {"idle"}, ctl : {"new"}, iterations : {0}, stops : {0}, stops_returned : {0},
   entries : {0}, closes : {0}, entry_after_stop : {FALSE}, set_after_stop : {FALSE},
   unrecorded : {FALSE}]

LoopMayStep == sc.kind = "typed" /\ sc.ctl # "new" /\ (sc.mode = "concurrent" \/ sc.ctl = "idle")
CtlMayStep == sc.kind = "typed" /\ (sc.mode = "concurrent" \/ sc.loop = "idle")

ScFrame == UNCHANGED <<schedVars, riskVars, instVars, btVars, rqVars, sgVars, lgVars>>

\* start(): the settings are valid; is_running = True
sc_start ==
  /\ sc.kind = "typed" /\ sc.ctl = "new"
  /\ sc' = [sc EXCEPT !.is_running = TRUE, !.ctl = "idle"]
  /\ ScFrame

\* the loop thread calls run_iteration
sc_run_iteration ==
  /\ LoopMayStep /\ sc.loop = "idle" /\ sc.iterations < MaxIterations
  /\ sc' = [sc EXCEPT !.loop = "check", !.iterations = @ + 1]
  /\ ScFrame

\* if not self.is_running or not self.btc_settings: return
sc_check_running ==
  /\ LoopMayStep /\ sc.loop = "check"
  /\ sc' = [sc EXCEPT !.loop = IF sc.is_running THEN "analyze" ELSE "idle"]
  /\ ScFrame

\* the bars are fetched (too few: return) and _analyze_market gives BUY or
\* no signal
sc_analyze ==
  /\ LoopMayStep /\ sc.loop = "analyze"
  /\ \E outcome \in {"insufficient", "BUY", "none"} :
       sc' = [sc EXCEPT !.loop = IF outcome = "insufficient" THEN "idle"
                                 ELSE IF outcome = "BUY" THEN "execute" ELSE "manage"]
  /\ ScFrame

\* _execute_signal: nothing when a position is tracked or max_positions
\* stored positions exist, else _enter_position
sc_execute_signal ==
  /\ LoopMayStep /\ sc.loop = "execute"
  /\ \E max_positions_reached \in BOOLEAN :
       sc' = [sc EXCEPT !.loop = IF sc.current_position \/ max_positions_reached
                                 THEN "manage" ELSE "enter"]
  /\ ScFrame

\* _enter_position: trading_service.place_order for the buy
sc_enter_order ==
  /\ LoopMayStep /\ sc.loop = "enter"
  /\ \E outcome \in PlaceOrderOutcomes :
       sc' = [sc EXCEPT !.entries = IF outcome = "raised" THEN @ ELSE @ + 1,
                        !.entry_after_stop = @ \/ (outcome # "raised" /\ sc.stops_returned > 0),
                        !.unrecorded = @ \/ outcome = "unrecorded",
                        !.loop = IF outcome = "ok" THEN "entered" ELSE "manage"]
  /\ ScFrame

\* if trade: self.current_position = {...}
sc_enter_record ==
  /\ LoopMayStep /\ sc.loop = "entered"
  /\ sc' = [sc EXCEPT !.current_position = TRUE,
                      !.set_after_stop = @ \/ sc.stops_returned > 0,
                      !.loop = "manage"]
  /\ ScFrame

\* if self.current_position: _manage_position, which exits at take profit
\* or stop loss
sc_manage_position ==
  /\ LoopMayStep /\ sc.loop = "manage"
  /\ \E should_exit \in BOOLEAN :
       sc' = [sc EXCEPT !.loop = IF sc.current_position /\ should_exit THEN "exit" ELSE "idle"]
  /\ ScFrame

\* _exit_position from the loop: return when no position is tracked, else
\* place_order for the opposite side
sc_exit_order ==
  /\ LoopMayStep /\ sc.loop = "exit"
  /\ \E outcome \in PlaceOrderOutcomes :
       sc' = IF ~sc.current_position THEN [sc EXCEPT !.loop = "idle"]
             ELSE [sc EXCEPT !.closes = IF outcome = "raised" THEN @ ELSE @ + 1,
                             !.unrecorded = @ \/ outcome = "unrecorded",
                             !.loop = IF outcome = "ok" THEN "exited" ELSE "idle"]
  /\ ScFrame

\* if trade: self.current_position = None
sc_exit_record ==
  /\ LoopMayStep /\ sc.loop = "exited"
  /\ sc' = [sc EXCEPT !.current_position = FALSE, !.loop = "idle"]
  /\ ScFrame

\* stop(): self.is_running = False
sc_stop ==
  /\ CtlMayStep /\ sc.ctl = "idle" /\ sc.stops < MaxStops
  /\ sc' = [sc EXCEPT !.is_running = FALSE, !.stops = @ + 1, !.ctl = "stop_check"]
  /\ ScFrame

\* if self.current_position: self._exit_position("strategy_stop"); else
\* return True
sc_stop_check ==
  /\ CtlMayStep /\ sc.ctl = "stop_check"
  /\ sc' = IF sc.current_position THEN [sc EXCEPT !.ctl = "stop_exit"]
           ELSE [sc EXCEPT !.ctl = "idle", !.stops_returned = @ + 1]
  /\ ScFrame

\* _exit_position from stop(): return when no position is tracked, else
\* place_order for the opposite side; an exception is logged and stop()
\* returns True
sc_stop_exit_order ==
  /\ CtlMayStep /\ sc.ctl = "stop_exit"
  /\ \E outcome \in PlaceOrderOutcomes :
       sc' = IF ~sc.current_position
             THEN [sc EXCEPT !.ctl = "idle", !.stops_returned = @ + 1]
             ELSE IF outcome = "ok"
             THEN [sc EXCEPT !.closes = @ + 1, !.ctl = "stop_exited"]
             ELSE [sc EXCEPT !.closes = IF outcome = "raised" THEN @ ELSE @ + 1,
                             !.unrecorded = @ \/ outcome = "unrecorded",
                             !.ctl = "idle", !.stops_returned = @ + 1]
  /\ ScFrame

\* if trade: self.current_position = None; stop() returns True
sc_stop_exit_record ==
  /\ CtlMayStep /\ sc.ctl = "stop_exited"
  /\ sc' = [sc EXCEPT !.current_position = FALSE, !.ctl = "idle", !.stops_returned = @ + 1]
  /\ ScFrame

(***************************************************************************)
(* Variables that a specification does not use stay at these values.       *)
(***************************************************************************)
NoRequest == [path |-> "none"]
RqIdle == rq = NoRequest
NoSignal == [kind |-> "none"]
SgIdle == sg = NoSignal
NoLedger == [kind |-> "none"]
LgIdle == lg = NoLedger
NoScalper == [kind |-> "none"]
ScIdle == sc = NoScalper

(***************************************************************************)
(* Specifications.                                                         *)
(*   Spec     the scheduler with one control thread: control calls follow  *)
(*            one another, the loop threads run concurrently with them     *)
(*   SpecConc two concurrent control threads calling start_strategy and    *)
(*            stop_strategy for the same strategy id, whose record stays   *)
(*            active; no shutdown                                          *)
(*   SpecRisk place_order / validate_trade over the scenarios              *)
(*   SpecLive the scheduler with fair loop threads                         *)
(*   SpecInst the calls of the strategy contract on one instance           *)
(*   SpecBt   one run of the scalping simulation and its metrics           *)
(*   SpecReq  one backtest request, from the fetch to the response         *)
(*   SpecSig  one evaluation of the live trading signal                    *)
(*   SpecLedger the stored trades and positions against the brokerage      *)
(*   SpecScalp one live scalping instance with a loop and a control thread *)
(***************************************************************************)
StartStopStep(c, I) ==
  \/ \E i \in I : CallStart(c, i)
  \/ \E i \in I : CallStop(c, i)
  \/ Return(c)
  \/ start_strategy_guard(c)
  \/ start_strategy_load(c)
  \/ _create_typed_strategy_instance(c)
  \/ start_strategy_register_instance(c)
  \/ start_strategy_mark_running(c)
  \/ start_strategy_thread_start(c)
  \/ start_strategy_log(c)
  \/ stop_strategy_guard(c)
  \/ stop_strategy_stop_instance(c)
  \/ stop_strategy_get_thread(c)
  \/ stop_strategy_join(c)
  \/ stop_strategy_del_running(c)
  \/ stop_strategy_del_instance(c)

ShutdownStep(c) ==
  \/ shutdown_set_flag(c)
  \/ shutdown_keys(c)
  \/ shutdown_loop(c)

LoopStep(t) ==
  \/ run_strategy_loop_test(t)
  \/ run_strategy_reread(t)
  \/ run_strategy_iterate(t)
  \/ run_strategy_update_performance(t)
  \/ run_strategy_commit(t)
  \/ run_strategy_wake(t)

RecordStep(I) == \E i \in I, v \in {"active", "inactive", "missing"} : SetRecord(i, v)

Init == InitSched /\ RiskIdle /\ InstIdle /\ BtIdle /\ RqIdle /\ SgIdle /\ LgIdle /\ ScIdle

Next ==
  \/ \E c \in SeqCallers : StartStopStep(c, Ids) /\ UNCHANGED <<riskVars, instVars, btVars, rqVars, sgVars, lgVars, scVars>>
  \/ \E c \in SeqCallers : ShutdownStep(c) /\ UNCHANGED <<riskVars, instVars, btVars, rqVars, sgVars, lgVars, scVars>>
  \/ \E t \in CallIds : LoopStep(t) /\ UNCHANGED <<riskVars, instVars, btVars, rqVars, sgVars, lgVars, scVars>>
  \/ RecordStep(Ids) /\ UNCHANGED <<riskVars, instVars, btVars, rqVars, sgVars, lgVars, scVars>>

Spec == Init /\ [][Next]_vars

NextConc ==
  \/ \E c \in Callers : StartStopStep(c, ConcIds) /\ UNCHANGED <<riskVars, instVars, btVars, rqVars, sgVars, lgVars, scVars>>
  \/ \E t \in CallIds : LoopStep(t) /\ UNCHANGED <<riskVars, instVars, btVars, rqVars, sgVars, lgVars, scVars>>

SpecConc == Init /\ [][NextConc]_vars

\* the scheduler with one control thread and records that stay active; every
\* loop thread is an operating-system thread that keeps being scheduled, and
\* its sleeps and the calls of its ticks return
NextLive ==
  \/ \E c \in SeqCallers : StartStopStep(c, Ids) /\ UNCHANGED <<riskVars, instVars, btVars, rqVars, sgVars, lgVars, scVars>>
  \/ \E c \in SeqCallers : ShutdownStep(c) /\ UNCHANGED <<riskVars, instVars, btVars, rqVars, sgVars, lgVars, scVars>>
  \/ \E t \in CallIds : LoopStep(t) /\ UNCHANGED <<riskVars, instVars, btVars, rqVars, sgVars, lgVars, scVars>>

SpecLive ==
  Init /\ [][NextLive]_vars /\ \A t \in CallIds : WF_vars(LoopStep(t) /\ UNCHANGED <<riskVars, instVars, btVars, rqVars, sgVars, lgVars, scVars>>)

\* the calls of the strategy contract on one instance, in any order
NextInst ==
  \/ strategy_start
  \/ create_strategy_instance
  \/ strategy_stop
  \/ strategy_run_iteration
  \/ strategy_backtest

InitInst == SchedIdle /\ RiskIdle /\ FreshInst /\ BtIdle /\ RqIdle /\ SgIdle /\ LgIdle /\ ScIdle

SpecInst == InitInst /\ [][NextInst]_vars

NextBt ==
  \/ backtest_bar
  \/ backtest_finish
  \/ backtest_metrics

InitBt == SchedIdle /\ RiskIdle /\ InstIdle /\ bt \in NewBacktests /\ RqIdle /\ SgIdle /\ LgIdle /\ ScIdle

SpecBt == InitBt /\ [][NextBt]_vars

NextReq ==
  \/ rq_fetch
  \/ rq_simulate
  \/ rq_respond

InitReq == SchedIdle /\ RiskIdle /\ InstIdle /\ BtIdle /\ SgIdle /\ rq \in NewRequests /\ LgIdle /\ ScIdle

SpecReq == InitReq /\ [][NextReq]_vars

NextSig ==
  \/ sg_run_iteration

InitSig ==
  /\ SchedIdle /\ RiskIdle /\ InstIdle /\ BtIdle /\ RqIdle /\ LgIdle /\ ScIdle
  /\ \E kd \in SigKinds : \E c \in SigSettings(kd) : sg \in SignalsOf(kd, c)

SpecSig == InitSig /\ [][NextSig]_vars

NextLedger ==
  \/ lg_place_order
  \/ broker_order_event
  \/ broker_position_event
  \/ update_filled_orders
  \/ update_positions

InitLedger ==
  /\ SchedIdle /\ RiskIdle /\ InstIdle /\ BtIdle /\ RqIdle /\ SgIdle /\ ScIdle
  /\ lg = NewLedger

SpecLedger == InitLedger /\ [][NextLedger]_vars

NextScalp ==
  \/ sc_start
  \/ sc_run_iteration
  \/ sc_check_running
  \/ sc_analyze
  \/ sc_execute_signal
  \/ sc_enter_order
  \/ sc_enter_record
  \/ sc_manage_position
  \/ sc_exit_order
  \/ sc_exit_record
  \/ sc_stop
  \/ sc_stop_check
  \/ sc_stop_exit_order
  \/ sc_stop_exit_record

InitScalp ==
  /\ SchedIdle /\ RiskIdle /\ InstIdle /\ BtIdle /\ RqIdle /\ SgIdle /\ LgIdle
  /\ sc \in NewScalpers

SpecScalp == InitScalp /\ [][NextScalp]_vars

NextRisk ==
  \/ place_order
  \/ position_sizing

InitRisk == SchedIdle /\ RiskReady /\ InstIdle /\ BtIdle /\ RqIdle /\ SgIdle /\ LgIdle /\ ScIdle

SpecRisk == InitRisk /\ [][NextRisk]_vars

(***************************************************************************)
(* Properties.                                                             *)
(***************************************************************************)
LoopsAlive(i) == {t \in CallIds : threads[t].sid = i /\ threads[t].pc \in AlivePcs}

Registered(i) == DictHas(running_strategies, i)

\* C1 (double-start guard): of the start_strategy(id) calls made with no
\* stop_strategy(id) in between, at most one returns True.
DoubleStartGuard == \A i \in Ids : wins[i] <= 1

\* C2 (one decision cycle per strategy): for every id at most one execution
\* loop thread is alive and at most one run_iteration is executing.
OneLoopPerStrategy ==
  \A i \in Ids :
    /\ Cardinality(LoopsAlive(i)) <= 1
    /\ Cardinality({t \in LoopsAlive(i) : threads[t].pc = "iterate"}) <= 1

\* C3 (blocked orders are not submitted): when place_order validated the risk
\* and validate_trade returned allowed = False, no order was submitted, no
\* Trade was recorded and the error carries a critical alert that
\* validate_trade returned.
BlockedOrderNeverSubmitted ==
  (rk_pc = "done" /\ rk_out.validated /\ ~rk_out.allowed) =>
    /\ ~rk_out.submitted
    /\ ~rk_out.trade_recorded
    /\ rk_out.error = "Trade blocked by risk management"
    /\ \E n \in 1..Len(rk_out.alerts) : rk_out.alerts[n] = rk_out.error_alert

\* C4 (blocked iff critical): validate_trade returns allowed = False exactly
\* when the alerts it returns contain an alert of severity critical.
BlockedIffCritical ==
  (rk_pc = "done" /\ rk_out.validated) =>
    (~rk_out.allowed <=> HasSeverity(rk_out.alerts, "critical"))

\* C5 (stop removes the registration): when stop_strategy(id) has returned
\* for an id that was registered at its guard, id is in neither
\* running_strategies nor strategy_instances.
StopRemovesEntry ==
  \A c \in Callers :
    (callers[c].op = "stop" /\ callers[c].pc = "ret" /\ callers[c].guard) =>
      /\ ~Registered(callers[c].sid)
      /\ strategy_instances[callers[c].sid] = 0

\* C6 (the loop exits at its next suspension point): a loop thread that wakes
\* from its sleep after stop_strategy was called for it starts no further tick.
NoTickAfterStop ==
  [][\A t \in CallIds : threads[t].stop = "woken" => threads'[t].pc # "reread"]_vars

\* C7 (a failed start leaves nothing behind): when start_strategy(id) has
\* returned False for an id that was not registered at its guard, id is in
\* neither running_strategies nor strategy_instances and the call started no
\* loop thread.
FailedStartLeavesNothing ==
  \A c \in Callers :
    (callers[c].op = "start" /\ callers[c].pc = "ret" /\ callers[c].ret = "false"
       /\ callers[c].guard) =>
      /\ ~Registered(callers[c].sid)
      /\ strategy_instances[callers[c].sid] = 0
      /\ threads[callers[c].k].pc \in {"unborn", "created"}

\* C8 (register before spawning): a loop thread that has been started and has
\* not yet evaluated its loop condition finds its id in running_strategies and
\* in strategy_instances, unless a stop_strategy (called directly or by
\* shutdown) removed the entry since the thread was created.
RegisteredBeforeLoopStarts ==
  \A t \in CallIds :
    (threads[t].pc = "start" /\ ~threads[t].unreg) =>
      /\ Registered(threads[t].sid)
      /\ strategy_instances[threads[t].sid] # 0

\* a started thread about to make its first evaluation, registered under its id
RegisteredBeforeLoopStartsWitness ==
  \E t \in CallIds :
    /\ threads[t].pc = "start"
    /\ ~threads[t].unreg
    /\ Registered(threads[t].sid)
    /\ DictGet(running_strategies, threads[t].sid) = t

\* C9 (a bad tick does not end the loop): a loop thread leaves a tick for
\* good only by the deactivation break of the re-read; a tick that raises
\* goes to the sleep of the except clause and changes neither the registry
\* nor any other loop thread; after that sleep the thread evaluates the loop
\* condition and begins another tick exactly when it would have after a
\* normal tick (id still registered, no shutdown).
BadTickDoesNotEndLoop ==
  [][\A t \in CallIds :
       /\ (threads[t].pc \in TickPcs /\ threads'[t].pc = "done") =>
            (threads[t].pc = "reread" /\ db[threads[t].sid] # "active")
       /\ (threads[t].pc \in TickPcs /\ threads'[t].pc = "sleep_exc") =>
            /\ running_strategies' = running_strategies
            /\ strategy_instances' = strategy_instances
            /\ \A u \in CallIds \ {t} : threads'[u] = threads[u]
       /\ (threads[t].pc = "sleep_exc" /\ threads'[t].pc # "sleep_exc") =>
            threads'[t].pc = "check"
       /\ (threads[t].pc = "check" /\ threads'[t].pc # "check") =>
            threads'[t].pc = IF ~_shutdown /\ Registered(threads[t].sid)
                             THEN "reread" ELSE "done"]_vars

\* a loop thread sleeping in the except clause while the loop of another
\* strategy is alive
BadTickDoesNotEndLoopWitness ==
  \E t, u \in CallIds :
    /\ threads[t].pc = "sleep_exc"
    /\ threads[u].pc \in AlivePcs
    /\ threads[u].sid # threads[t].sid

\* C10 (deactivation takes effect at the re-read): a tick that re-reads a
\* missing or inactive record ends the loop without reaching run_iteration;
\* a change of the record moves no loop thread, and a thread past the re-read
\* or asleep never ends before its next loop test.
DeactivationStopsAtReread ==
  [][\A t \in CallIds :
       /\ (threads[t].pc = "reread" /\ db[threads[t].sid] # "active"
             /\ threads'[t].pc \notin {"reread", "sleep_exc"}) =>
            threads'[t].pc = "done"
       /\ (threads[t].pc \in {"iterate", "perf", "commit", "sleep", "sleep_exc"}) =>
            threads'[t].pc # "done"
       /\ (db' # db) => threads' = threads]_vars

\* a loop thread that ended although its id is still registered and no
\* shutdown was requested: it left by the deactivation break
DeactivationStopsAtRereadWitness ==
  \E t \in CallIds :
    /\ threads[t].pc = "done"
    /\ db[threads[t].sid] # "active"
    /\ ~_shutdown
    /\ Registered(threads[t].sid)
    /\ DictGet(running_strategies, threads[t].sid) = t

\* C11 (shutdown stops every strategy): shutdown() takes the ids registered
\* when it is called, calls stop_strategy for each of them in turn whatever
\* the earlier stop_strategy calls returned, and returns only when none is
\* left; after it has returned every loop thread eventually ends.
ShutdownStopsEveryStrategy ==
  /\ [][\A c \in Callers :
          callers[c].op = "shutdown" =>
            /\ (callers[c].pc = "sd_keys" /\ callers'[c].pc # "sd_keys") =>
                 callers'[c].todo = DictKeys(running_strategies)
            /\ (callers[c].pc # "sd_keys" /\ callers'[c].op = "shutdown"
                  /\ callers'[c].todo # callers[c].todo) =>
                 /\ callers[c].todo # <<>>
                 /\ callers'[c].todo = Tail(callers[c].todo)
                 /\ callers'[c].pc = "st_guard"
                 /\ callers'[c].sid = Head(callers[c].todo)
            /\ (callers'[c].op = "shutdown" /\ callers'[c].pc = "ret") =>
                 /\ callers[c].pc \in {"sd_loop", "ret"}
                 /\ callers[c].todo = <<>>]_vars
  /\ (\E c \in Callers : callers[c].op = "shutdown" /\ callers[c].pc = "ret")
       ~> (\A t \in CallIds : threads[t].pc \notin AlivePcs)

\* shutdown() goes on to the second registered id after stop_strategy failed
\* for the first one, whose thread was never started
ShutdownStopsEveryStrategyWitness ==
  \E c \in Callers :
    /\ callers[c].op = "shutdown"
    /\ callers[c].pc = "st_guard"
    /\ Len(running_strategies) = 2
    /\ running_strategies[1][2] = 1
    /\ threads[1].pc = "created"
    /\ callers[c].sid = running_strategies[2][1]
    /\ threads[2].pc \in AlivePcs

\* C12 (drawdown blocks, a clean scenario passes): validate_trade returns
\* allowed = False whenever the strategy's drawdown from its peak capital is at
\* least its max_drawdown, and allowed = True whenever the drawdown, the daily
\* loss and the positions are all 0 (for an order that is a sell or a buy
\* within the safe maximum).
DrawdownBlocksTrade ==
  (rk_pc = "done" /\ rk_out.validated /\ rk_in.exists) =>
    LET peak == get_peak_capital(rk_in)
        lost == peak - rk_in.current_capital
        m == get_strategy_risk_limits(rk_in).max_drawdown
        q == rk_in.quantity10 \div 10
    IN  /\ (peak > 0 /\ lost * 100 >= m * peak) => ~rk_out.allowed
        /\ (lost = 0 /\ rk_in.daily_pnl = 0 /\ rk_in.positions = <<>>
             /\ (rk_in.side = "sell"
                   \/ q <= calculate_position_size(rk_in, rk_in.price, 0).size))
            => rk_out.allowed

\* C13 (position value within the limit): for an existing strategy and an
\* entry price above 0, a quantity returned by calculate_position_size is
\* worth at most max_position_size percent of the portfolio value (current
\* capital plus the market value of the positions).
PositionWithinPortfolioLimit ==
  (rk_pc = "sized" /\ rk_in.exists /\ rk_in.price > 0 /\ rk_out.size > 0) =>
    rk_out.size * rk_in.price * 100 <=
      get_strategy_risk_limits(rk_in).max_position_size * calculate_portfolio_value(rk_in)

\* C14 (a reduced size comes with a high alert): when the size found from the
\* risk amount is worth more than max_position_size percent of the portfolio
\* and calculate_position_size returns less, the alerts it returns include
\* one of severity high.
ReducedSizeHasHighAlert ==
  (rk_pc = "sized" /\ rk_in.exists /\ rk_in.price > 0) =>
    LET proposed == risk_based_size(rk_in, rk_in.price, rk_out.stop_loss_price)
        maxpos == get_strategy_risk_limits(rk_in).max_position_size
    IN  (/\ proposed * rk_in.price * 100 > maxpos * calculate_portfolio_value(rk_in)
         /\ rk_out.size < proposed)
        => HasSeverity(rk_out.alerts, "high")

StartRejectsBadWindows ==
  (/\ inst.kind \in BTCKinds
   /\ inst.start_ret # "none"
   /\ inst.settings.short_ma_periods >= inst.settings.long_ma_periods)
     => inst.start_ret = "false"

\* C17 as stated: a stop() that follows a stop() returns success and changes
\* nothing: no field of the instance, no order.
SecondStopIsNoOp ==
  [][(inst.kind # "none" /\ inst.last = "stop" /\ inst'.last = "stop"
        /\ inst'.nops = inst.nops + 1)
       => /\ inst'.ret = "true" /\ inst.ret = "true"
          /\ inst'.is_running = inst.is_running
          /\ inst'.current_position = inst.current_position
          /\ inst'.orders = inst.orders]_vars

\* C17: every stop() returns success; a stop() that follows a stop() which
\* left no tracked position changes nothing and places no order; one that
\* follows a stop() which left the position open can only close it.
SecondStopIsNoOpWhenFlat ==
  [][(inst.kind # "none" /\ inst.last = "stop" /\ inst'.last = "stop"
        /\ inst'.nops = inst.nops + 1)
       => /\ inst'.ret = "true" /\ inst.ret = "true"
          /\ inst'.is_running = inst.is_running
          /\ ~inst.current_position =>
                (~inst'.current_position /\ inst'.orders = inst.orders)
          /\ inst.current_position =>
                \/ (inst'.current_position /\ inst'.orders = inst.orders)
                \/ (~inst'.current_position /\ inst'.orders = inst.orders + 1)]_vars

\* a second stop() in a row has returned on a BTC instance that had entered
\* a position and closed it
SecondStopIsNoOpWhenFlatWitness ==
  /\ inst.kind \in BTCKinds
  /\ inst.last = "stop" /\ inst.prev = "stop"
  /\ inst.orders = 2 /\ ~inst.current_position

\* C18: after start() succeeded on a new instance and stop() followed at
\* once, the instance is not running, tracks no position, and no order has
\* been placed.
StartThenStopIsFlat ==
  (/\ inst.kind # "none"
   /\ inst.nops = 2 /\ inst.prev = "start" /\ inst.prev_ret = "true"
   /\ inst.last = "stop")
     => /\ ~inst.is_running
        /\ ~inst.current_position
        /\ inst.orders = 0
        /\ inst.ret = "true"

StartThenStopIsFlatWitness ==
  /\ inst.kind = "typed"
  /\ inst.nops = 2 /\ inst.prev = "start" /\ inst.prev_ret = "true"
  /\ inst.last = "stop" /\ ~inst.is_running

\* the trades of a result that close a position, and the reason given to a
\* forced close (the two services write "backtest_end", the typed backtest
\* "Backtest end")
IsClosing(st, t) == IF st.kind = "typed" THEN t.pnl # <<>> ELSE TRUE
ReasonOf(st, t) == IF st.kind = "typed" THEN t.reason ELSE t.exit_reason
BacktestEndReasons == {"Backtest end", "backtest_end"}

\* C19: when a backtest run has ended, every position opened during the run
\* has exactly one closing trade, which carries its realized P&L; a position
\* that was open after the last bar has been closed at the last bar's close
\* with the exit reason of the end of the backtest.
BacktestLeavesNoOpenPosition ==
  (bt.kind # "none" /\ bt.pc = "done") =>
    LET n == Len(bt.trades)
        last == bt.bars[Len(bt.bars)]
    IN  /\ IF bt.kind = "typed"
           THEN /\ n = 2 * bt.opened
                /\ \A j \in 1..bt.opened :
                     /\ bt.trades[2 * j - 1].pnl = <<>>
                     /\ bt.trades[2 * j].side # bt.trades[2 * j - 1].side
                     /\ bt.trades[2 * j].pnl =
                          <<(IF bt.trades[2 * j - 1].side = "buy" THEN 1 ELSE -1)
                              * (bt.trades[2 * j].price - bt.trades[2 * j - 1].price)
                              * bt.trades[2 * j - 1].quantity>>
           ELSE /\ n = bt.opened
                /\ \A j \in 1..n :
                     bt.trades[j].pnl =
                       <<(bt.trades[j].exit_price - bt.trades[j].entry_price) * bt.trades[j].quantity>>
        /\ bt.current_position.side # "none" =>
             /\ n > 0
             /\ ReasonOf(bt, bt.trades[n]) \in BacktestEndReasons
             /\ (IF bt.kind = "typed" THEN bt.trades[n].price ELSE bt.trades[n].exit_price) = last.close
             /\ (IF bt.kind = "typed" THEN bt.trades[n].timestamp ELSE bt.trades[n].exit_time) = last.timestamp
        /\ \A j \in 1..n :
             (IsClosing(bt, bt.trades[j]) /\ ReasonOf(bt, bt.trades[j]) \in BacktestEndReasons)
               => (j = n /\ bt.current_position.side # "none")

\* a run has ended whose second position was still open after the last bar
BacktestLeavesNoOpenPositionWitness ==
  /\ bt.kind # "none" /\ bt.pc = "done"
  /\ bt.opened >= 2
  /\ bt.current_position.side # "none"

\* C20: the timestamps of the equity curve never decrease, and every trade
\* is entered and closed between the first and the last bar's timestamp,
\* entered no later than it is closed.
BacktestTimestampsOrdered ==
  (bt.kind # "none") =>
    LET first == bt.bars[1].timestamp
        last == bt.bars[Len(bt.bars)].timestamp
        n == Len(bt.trades)
    IN  /\ \A j \in 1..(Len(bt.equity_curve) - 1) :
             bt.equity_curve[j].timestamp <= bt.equity_curve[j + 1].timestamp
        /\ IF bt.kind = "typed"
           THEN /\ \A j \in 1..n : first <= bt.trades[j].timestamp /\ bt.trades[j].timestamp <= last
                /\ \A j \in 1..n :
                     (j > 1 /\ bt.trades[j].pnl # <<>>)
                       => bt.trades[j - 1].timestamp <= bt.trades[j].timestamp
           ELSE \A j \in 1..n :
                  /\ first <= bt.trades[j].entry_time
                  /\ bt.trades[j].entry_time <= bt.trades[j].exit_time
                  /\ bt.trades[j].exit_time <= last

\* a run of one of the services has ended with a trade that was entered on
\* one bar and closed on a later one by the end of the run
BacktestTimestampsOrderedWitness ==
  /\ bt.kind \in {"enhanced", "legacy"} /\ bt.pc = "done"
  /\ Len(bt.equity_curve) >= 2
  /\ \E j \in 1..Len(bt.trades) :
       /\ bt.trades[j].entry_time < bt.trades[j].exit_time
       /\ bt.trades[j].exit_reason = "backtest_end"

\* C21: a result computed from a generated series is tagged 'synthetic',
\* one computed from brokerage bars is tagged 'real'.
DataSourceTagMatchesOrigin ==
  (rq.path \in {"enhanced", "generic"} /\ rq.pc = "done" /\ rq.outcome = "result") =>
     /\ rq.origin = "generated" => rq.data_source = "synthetic"
     /\ rq.origin = "real" => rq.data_source = "real"

\* the outcomes that report a condition instead of a result
ReportedErrors ==
  {"ValueError: Insufficient historical data for backtesting",
   "ValueError: No historical data available"}

\* C23: a request whose bars are fewer than the long moving-average window
\* ends with a report of missing data, with a result without trades (on the
\* fetched bars or on a generated series), or with the error response; no
\* other exception leaves the call.
ShortSeriesNeverCrashes ==
  (rq.path # "none" /\ rq.pc = "done"
     /\ (rq.nbars < rq.long_ma_periods \/ (rq.fetched >= 0 /\ rq.fetched < rq.long_ma_periods)))
    => \/ rq.outcome = "raised" /\ rq.error \in ReportedErrors
       \/ rq.outcome = "error_response"
       \/ rq.outcome = "result" /\ (rq.nbars < rq.long_ma_periods => rq.trades = 0)

\* a request that fetched 2 bars has returned, on each of the three paths
\* in its own way; this one is the engine's result on the 2 bars
ShortSeriesNeverCrashesWitness ==
  /\ rq.path = "generic" /\ rq.pc = "done"
  /\ rq.fetched = 2 /\ rq.nbars = 2 /\ rq.long_ma_periods = 5
  /\ rq.outcome = "result" /\ rq.trades = 0

\* the floats of a result, at any depth
RECURSIVE FloatsOf(_)
FloatsOf(node) ==
  IF node.t \in {"dict", "list"}
  THEN UNION {FloatsOf(node.items[i]) : i \in 1..Len(node.items)}
  ELSE IF node.t \in {"float", "npfloat"} THEN {node.x}
  ELSE {}

\* what the claim asks of a returned value, given the value computed: the
\* same nesting, and each float finite: 0.0 for not-a-number, 999.99 and
\* -999.99 for the infinities, itself otherwise
RECURSIVE SanitizedAs(_, _)
SanitizedAs(out, raw) ==
  IF raw.t \in {"dict", "list"}
  THEN /\ out.t = raw.t
       /\ Len(out.items) = Len(raw.items)
       /\ raw.t = "dict" => out.keys = raw.keys
       /\ \A i \in 1..Len(raw.items) : SanitizedAs(out.items[i], raw.items[i])
  ELSE IF raw.t \in {"float", "npfloat"}
  THEN /\ out.t \in {"float", "npfloat"}
       /\ out.x = (IF raw.x.c = "nan" THEN Fin(0)
                   ELSE IF raw.x = PosInf THEN Fin(99999)
                   ELSE IF raw.x = NegInf THEN Fin(-99999)
                   ELSE raw.x)
  ELSE out.t \in {"int", "str", "none", "datetime"}

BacktestView(s) ==
  [kind |-> "typed", bars |-> s.bars, k |-> Len(s.bars), config |-> s.settings,
   current_position |-> s.current_position]

\* the backtest enters long exactly when the live rule says BUY, for some
\* outcome of the RSI filter
EntryDecisionsAgree(s) ==
  \E filters_ok \in BOOLEAN :
    (check_entry_signal(BacktestView(s), filters_ok) = "buy")
      <=> (_get_traditional_signal(s) = "BUY")

\* the backtest exits exactly when the live take-profit / stop-loss rule does
ExitDecisionsAgree(s) ==
  (check_exit_condition(BacktestView(s), FALSE) # "")
    <=> (live_exit_reason(s.current_position, s.bars[Len(s.bars)].close) # "")

\* C24: on the same bars and settings the typed backtest's entry decision
\* equals the live rule-based signal and its exit decision equals the live
\* take-profit / stop-loss rule
BacktestAppliesLiveRule ==
  (sg.kind = "typed" /\ sg.pc = "ready")
    => IF sg.current_position.side = "none" THEN EntryDecisionsAgree(sg)
       ELSE ExitDecisionsAgree(sg)

\* C26: with AI analysis disabled, or the advisory provider absent or
\* raising, _analyze_market returns the rule-based signal of the same bars
AnalysisFallsBackToRuleBased ==
  (sg.kind # "none" /\ sg.pc = "done"
     /\ sg.advisory \in {"disabled", "unavailable", "raises"})
    => sg.signal = sg.traditional_signal

\* the volume the rule is said to compare with min_volume
EffectiveVolume(s) ==
  LET actual_volume == s.bars[Len(s.bars)].volume
  IN  IF s.settings.paper_trading_mode /\ actual_volume = 0
      THEN s.settings.fallback_volume ELSE actual_volume

\* C27: the rule-based signal is BUY only if short MA > long MA, close >
\* short MA and the effective volume is at least min_volume
RuleBasedBuyConditions ==
  (sg.kind # "none" /\ sg.pc = "done" /\ sg.traditional_signal = "BUY")
    => /\ short_above_long(sg.bars, Len(sg.bars), sg.settings)
       /\ price_above_short(sg.bars, Len(sg.bars), sg.settings)
       /\ EffectiveVolume(sg) >= sg.settings.min_volume

\* everything the rule asks for apart from the cooldown, with a traded
\* volume of at least min_volume
OtherBuyConditions(s) ==
  /\ s.bars[Len(s.bars)].volume >= s.settings.min_volume
  /\ short_above_long(s.bars, Len(s.bars), s.settings)
  /\ price_above_short(s.bars, Len(s.bars), s.settings)

CooldownStep ==
  (sg.kind # "none" /\ sg.pc = "ready" /\ sg'.pc = "done" /\ OtherBuyConditions(sg))
    => ((sg'.traditional_signal = "None")
          <=> (/\ sg.last_signal_time # <<>>
               /\ sg.now - sg.last_signal_time[1] < CooldownSeconds))

\* C28: the rule-based signal is suppressed exactly while less than 300
\* seconds have elapsed since last_signal_time, however long ago that was
CooldownSuppressesExactly == [][CooldownStep]_vars


\* the long round trips of a run: entry price, exit price, P&L and reason
LongRoundTrips(st) ==
  LET n == Len(st.trades)
  IN  IF st.kind = "typed"
      THEN {[entry_price |-> st.trades[2 * i - 1].price,
             exit_price |-> st.trades[2 * i].price,
             pnl |-> st.trades[2 * i].pnl,
             reason |-> st.trades[2 * i].reason] :
              i \in {h \in 1..(n \div 2) : st.trades[2 * h - 1].side = "buy"}}
      ELSE {[entry_price |-> st.trades[i].entry_price,
             exit_price |-> st.trades[i].exit_price,
             pnl |-> st.trades[i].pnl,
             reason |-> st.trades[i].exit_reason] : i \in 1..n}

\* close >= entry_price * (1 + take_profit_pct) for the configured percentage
AtTakeProfit(entry_price, close, c) ==
  close * 1000 >= entry_price * (1000 + c.take_profit_pct)

\* C29: in a backtest an open long position is closed at the first bar whose
\* close is at least entry_price * (1 + take_profit_pct) for the configured
\* take_profit_pct, with exit reason 'take_profit' and a strictly positive
\* P&L
BacktestTakeProfit ==
  bt.kind # "none" =>
    /\ \A r \in LongRoundTrips(bt) :
         /\ AtTakeProfit(r.entry_price, r.exit_price, bt.config)
              => (r.reason = "take_profit" /\ r.pnl[1] > 0)
         /\ r.reason \in {"take_profit", "Take profit"}
              => AtTakeProfit(r.entry_price, r.exit_price, bt.config)
    /\ (bt.pc = "loop" /\ bt.current_position.side = "buy") =>
         \A j \in 1..(bt.k - 1) :
           bt.bars[j].timestamp > bt.current_position.entry_time
             => ~AtTakeProfit(bt.current_position.entry_price, bt.bars[j].close, bt.config)


\* the alerts the three tiers ask for, the percentages compared exactly
DrawdownTier(s) ==
  LET peak == get_peak_capital(s)
      lost == peak - s.current_capital
      m == get_strategy_risk_limits(s).max_drawdown
  IN  IF lost * 100 >= m * peak THEN <<Alert("drawdown", "critical")>>
      ELSE IF lost * 500 >= 4 * m * peak THEN <<Alert("drawdown", "high")>>
      ELSE IF lost * 500 >= 3 * m * peak THEN <<Alert("drawdown", "medium")>>
      ELSE <<>>

\* C30: check_drawdown_limits emits exactly one drawdown alert, 'medium' for
\* a drawdown in [60%, 80%) of max_drawdown, 'high' in [80%, 100%),
\* 'critical' at or above 100%, and no alert below 60%
DrawdownAlertTiers ==
  (rk_pc = "done" /\ rk_out.validated /\ rk_in.exists /\ get_peak_capital(rk_in) > 0)
    => check_drawdown_limits(rk_in) = DrawdownTier(rk_in)


\* C25: a backtest run makes no brokerage call, whatever the live instance
\* does meanwhile (and it writes no record: the step leaves the orders, the
\* position and the running flag of the strategy as they are)
BacktestRunIsIsolated ==
  inst.kind # "none" => (inst.engine_fetches = 0 /\ inst.backtest_fetches = 0)

\* the alerts the three tiers ask for on today's realized loss, the
\* percentages compared exactly
DailyLossTier(s) ==
  LET m == get_strategy_risk_limits(s).max_daily_loss
      loss == Abs(s.daily_pnl)
      cap == s.current_capital
  IN  IF s.daily_pnl >= 0 THEN <<>>
      ELSE IF loss * 100 >= m * cap THEN <<Alert("daily_loss", "critical")>>
      ELSE IF loss * 500 >= 4 * m * cap THEN <<Alert("daily_loss", "high")>>
      ELSE IF loss * 500 >= 3 * m * cap THEN <<Alert("daily_loss", "medium")>>
      ELSE <<>>

\* C31: check_daily_loss_limits escalates as the drawdown check does: today's
\* realized loss as a percentage of capital gives 'medium' in [60%, 80%) of
\* max_daily_loss, 'high' in [80%, 100%) and 'critical' at or above 100%
DailyLossAlertTiers ==
  (rk_pc = "done" /\ rk_out.validated /\ rk_in.exists /\ rk_in.current_capital > 0)
    => check_daily_loss_limits(rk_in) = DailyLossTier(rk_in)

\* the same without the 'medium' tier
DailyLossHighAndCritical ==
  (rk_pc = "done" /\ rk_out.validated /\ rk_in.exists /\ rk_in.current_capital > 0)
    => LET got == check_daily_loss_limits(rk_in)
           want == DailyLossTier(rk_in)
       IN  IF want = <<Alert("daily_loss", "medium")>> THEN got = <<>> ELSE got = want


\* the sum of the P&L of the recorded closing trades (an entry record of the
\* typed backtest carries no P&L)
RECURSIVE realized_pnl(_)
realized_pnl(trades) ==
  IF trades = <<>> THEN 0
  ELSE (IF Head(trades).pnl = <<>> THEN 0 ELSE Head(trades).pnl[1]) + realized_pnl(Tail(trades))

\* initial capital plus the realized P&L of the closed trades plus the
\* unrealized P&L of the open position at the close of bar j
MarkToMarket(st, j) ==
  st.initial_capital + realized_pnl(st.trades)
    + (IF st.current_position.side # "none"
       THEN calculate_pnl(st.current_position, st.bars[j].close) ELSE 0)

\* the step of one bar: the point it appends is the mark-to-market value of
\* the portfolio as the loop holds it when the point is taken (before the
\* bar's exit and entry in the typed backtest, after them in the services)
EquityPointStep ==
  (bt.kind # "none" /\ bt.pc = "loop" /\ bt'.kind = bt.kind
     /\ Len(bt'.equity_curve) = Len(bt.equity_curve) + 1)
    => LET point == bt'.equity_curve[Len(bt'.equity_curve)]
           held == IF bt.kind = "typed" THEN bt ELSE bt'
       IN  point.portfolio_value = MarkToMarket(held, bt.k)

CapitalConserved ==
  (bt.kind # "none" /\ (bt.current_position.side = "none" \/ bt.pc # "loop"))
    => bt.capital = bt.initial_capital + realized_pnl(bt.trades)


\* the two factors as the metrics define them, for a run with the given
\* trades, total return and largest drawdown
FactorsOf(trades, total_return, drawdown) ==
  [profit_factor |-> IF gross_loss(trades) = 0 THEN Ratio(LargeSentinel, 100)
                     ELSE Ratio(gross_profit(trades), gross_loss(trades)),
   recovery_factor |-> IF drawdown.n = 0 THEN Ratio(LargeSentinel, 100)
                       ELSE Ratio(Abs(total_return) * drawdown.d, drawdown.n)]

\* C32: in the metrics of the enhanced backtest the profit factor is gross
\* profit / gross loss and 999.99 whenever the gross loss is zero, and the
\* recovery factor is |total return| / max drawdown and 999.99 whenever the
\* max drawdown is zero, runs without a trade included
ProfitAndRecoveryFactors ==
  (bt.kind = "enhanced" /\ bt.pc = "reported")
    => LET want == FactorsOf(bt.trades, bt.metrics.total_return, bt.metrics.max_drawdown)
       IN  /\ RatioEqual(bt.metrics.profit_factor, want.profit_factor)
           /\ RatioEqual(bt.metrics.recovery_factor, want.recovery_factor)


\* the step changes no Trade row except from pending to a terminal status
TradeStatusStep ==
  lg.kind = "ledger" =>
    /\ Len(lg'.trades) >= Len(lg.trades)
    /\ \A n \in 1..Len(lg.trades) :
         \/ lg'.trades[n] = lg.trades[n]
         \/ /\ lg.trades[n].status = "pending"
            /\ lg'.trades[n].status \in {"filled", "cancelled", "rejected"}

\* a poll that completes takes every pending trade whose order the brokerage
\* has filled, cancelled or rejected out of the pending state
SettlementStep ==
  (lg.kind = "ledger" /\ lg'.op = "update_filled_orders")
    => \A n \in 1..Len(lg.trades) :
         (lg.trades[n].status = "pending" /\ lg.orders[lg.trades[n].order] \in TerminalOrderStatuses)
           => lg'.trades[n].status # "pending"

\* C34: a Trade's status changes at most once and only from pending to
\* filled, cancelled or rejected; update_filled_orders never modifies a trade
\* that is not pending, and a pending trade whose order was filled, cancelled
\* or rejected leaves the pending state on the next poll
TradeSettlesOnce == [][TradeStatusStep /\ SettlementStep]_vars

\* C35: after update_positions every stored Position has side long with a
\* positive quantity or side short with a negative one, none has quantity
\* zero, and none is of a symbol the brokerage no longer reports
StoredPositionsMatchBrokerage ==
  (lg.kind = "ledger" /\ lg.op = "update_positions")
    => \A sym \in LedgerSymbols :
         lg.positions[sym] # NoRow =>
           /\ lg.broker[sym] # 0
           /\ \/ lg.positions[sym].side = "long" /\ lg.positions[sym].quantity > 0
              \/ lg.positions[sym].side = "short" /\ lg.positions[sym].quantity < 0


\* C36: the registry is consistent with the live loops: whenever no control
\* call is in progress, running_strategies and strategy_instances have the
\* same keys and every id reported as running has an execution loop alive
\* (so an id whose loop has exited is not reported as running and a start of
\* it is not rejected as already running)
RegistryMatchesLoops ==
  (\A c \in Callers : callers[c].pc = "idle")
    => \A i \in Ids :
         /\ Registered(i) <=> strategy_instances[i] # 0
         /\ Registered(i) => LoopsAlive(i) # {}


\* the checks validate_trade evaluates for the order: position sizing only
\* for a buy
EvaluatedChecks(s) ==
  IF s.side = "buy" THEN FailingChecks ELSE FailingChecks \ {"size"}

\* C39: the risk gate fails closed: when a risk check inside validate_trade
\* cannot be evaluated (it raises or returns an 'error' alert),
\* validate_trade returns allowed = false
RiskGateFailsClosed ==
  (rk_pc = "done" /\ rk_out.validated /\ rk_in.fail \in EvaluatedChecks(rk_in))
    => ~rk_out.allowed


\* C37: once stop() has returned on a scalping instance, the instance
\* submits no further entry order and its current_position is not set again,
\* also when stop() ran while the loop thread was inside run_iteration
NoEntryAfterStop ==
  sc.kind = "typed" => (~sc.entry_after_stop /\ ~sc.set_after_stop)

\* C38: a scalping instance holds at most one position: between the calls of
\* any sequence of run_iteration and stop, failures of place_order included,
\* the entry orders submitted minus the closing orders submitted is 0 or 1,
\* and it is 1 exactly when current_position is set
AtMostOnePosition ==
  (sc.kind = "typed" /\ sc.mode = "sequential" /\ sc.loop = "idle" /\ sc.ctl = "idle")
    => /\ sc.entries - sc.closes \in {0, 1}
       /\ (sc.entries - sc.closes = 1) <=> sc.current_position


====
